---------------------------- MODULE Spec2Model ----------------------------
(***************************************************************************)
(* Model of the video-upload analysis pipeline of fu-scammers: the Output  *)
(* Parser (types/ai.ts), the Media Extractors, the Analysis Client, the    *)
(* Upload Orchestrator in its three revisions, and the fine-tune and       *)
(* recording handlers.                                                     *)
(*                                                                         *)
(* Texts are sequences of tokens.  A token is one lexical unit of the raw  *)
(* model text: a JSON punctuation character, a JSON scalar, an object key  *)
(* with its colon, a Markdown fence, the word json, white space ("ws") or  *)
(* a word of prose ("p").  Numbers are kept in hundredths (0.42 is 42).    *)
(***************************************************************************)
EXTENDS Integers, Sequences, FiniteSets, TLC

VARIABLES
    raw,        \* parser run: the argument of parseAIDetectionOutput
    embedded,   \* parser run: the JSON value the text was built around
    shapeOfText,\* parser run: how the value is embedded: plain, fenced, prose
    parsed,     \* parser run: the ParseResult of the last call, or NotCalled
    parseCalls, \* parser run: number of calls made
    parsedBefore, \* parser run: result of the call before the latest one
    otherCalls, \* parser run: number of calls made on other texts
    regexObject, \* parser run: the code-block regex object as the latest call left it
    cRev,       \* client run: which revision of the Analysis Client is called
    cFrames,    \* client run: the frame paths passed, each by the state of its file
    cAudio,     \* client run: the state of the audio file passed
    cPc,        \* client run: where the call is
    cCalls,     \* client run: the network calls issued so far, in order
    cSent,      \* client run: indices of the frames attached to the model request
    cOutcome,   \* client run: the text returned or the message of the Error thrown
    ctlRev,     \* pipeline: the revision of the upload controller that is deployed
    pc,         \* pipeline: where each request is
    reqKind,    \* pipeline: "upload" or "finetune" once the request has arrived
    videos,     \* disk: the requests whose uploaded video file exists
    dirs,       \* disk: the directories that exist under uploads/
    files,      \* disk: the files in each directory, by index
    frameCount, \* pipeline: number of frames extractFrames returned to the request
    calls,      \* pipeline: the network calls issued for each request
    response,   \* pipeline: the HTTP response sent for each request
    log,        \* history: the steps of each request, in order
    crossDeleted, \* history: <<a, b>> when a's cleanup removed a folder of b
    users,      \* history: per directory, the invocations that wrote into or cleared it
    uploaded,   \* history: the file each upload request carried (req.file)
    answer,     \* history: the text the model endpoint returned for each request
    sRev,       \* frame selection: the revision that selects
    sCount,     \* frame selection: number of frames extracted
    sSent,      \* frame selection: positions of the frames sent, in the order sent
    sPc,        \* frame selection: "idle" or "sent"
    wss,        \* broadcaster: whether setupWebSocket has run (globalWSS is set)
    bPc,        \* broadcaster run: where the upload request is
    bFile,      \* broadcaster run: the upload: "none", "invalid" or "valid"
    bResult,    \* broadcaster run: what extractAndAnalyze did, "none" before
    bSteps,     \* history: the steps of the request, in order
    bResponses, \* history: the status codes sent with res.status(...).json(...)
    bVideo,     \* disk: the uploaded file: "absent", "present" or "deleted"
    stream,     \* broadcaster: per connection, its stream of the uploaded path
    active,     \* broadcaster: the connection whose stream is in activeStreams, or 0
    stopCalled, \* history: stopFrameStreaming has been called for the path
    lateFrames, \* history: connections that got a frame event after the stop
    ticks,      \* history: frame events sent per connection
    eRev,       \* error reporting: which analysis function is called
    eCalls,     \* error reporting: per call, what the model call did and the outcome
    hLog,       \* failure responses: what each handled request sent
    rRev,       \* recording: which revision of the controller runs
    rPc,        \* recording: "idle", "analyzing" or "done"
    rFrames,    \* recording: number of frames in the request body
    rDir,       \* disk: the session directory: "none", "present" or "removed"
    rFiles,     \* disk: number of files in the session directory
    rDbConfigured, \* environment: WEAVIATE_URL and WEAVIATE_API_KEY are set
    rReply,     \* history: what the model call of the recording did
    rStored,    \* database: the analyses inserted into the Videos collection
    rResponse,  \* recording: the response sent
    xRev,       \* frame listing: which extractor runs
    xDir,       \* disk: the files of the extractor's output folder
    xFrames,    \* frame listing: the list the extractor returned
    xPc         \* frame listing: "extracting" or "returned"

parserVars == <<raw, embedded, shapeOfText, parsed, parseCalls, parsedBefore, otherCalls,
                regexObject>>

clientVars == <<cRev, cFrames, cAudio, cPc, cCalls, cSent, cOutcome>>

pipelineVars == <<ctlRev, pc, reqKind, videos, dirs, files, frameCount, calls, response,
                  log, crossDeleted, users, uploaded, answer>>

sampleVars == <<sRev, sCount, sSent, sPc>>

broadcastVars == <<wss, bPc, bFile, bResult, bSteps, bResponses, bVideo, stream, active,
                   stopCalled, lateFrames, ticks>>

errorVars == <<eRev, eCalls>>

responseVars == <<hLog>>

recordingVars == <<rRev, rPc, rFrames, rDir, rFiles, rDbConfigured, rReply, rStored,
                   rResponse>>

listingVars == <<xRev, xDir, xFrames, xPc>>

vars == <<raw, embedded, shapeOfText, parsed, parseCalls, parsedBefore, otherCalls,
          regexObject,
          cRev, cFrames, cAudio, cPc, cCalls, cSent, cOutcome,
          ctlRev, pc, reqKind, videos, dirs, files, frameCount, calls, response,
          log, crossDeleted, users, uploaded, answer,
          sRev, sCount, sSent, sPc,
          wss, bPc, bFile, bResult, bSteps, bResponses, bVideo, stream, active,
          stopCalled, lateFrames, ticks,
          eRev, eCalls, hLog,
          rRev, rPc, rFrames, rDir, rFiles, rDbConfigured, rReply, rStored, rResponse,
          xRev, xDir, xFrames, xPc>>

-----------------------------------------------------------------------------
(* JSON values as JavaScript sees them after JSON.parse *)

JNull == [t |-> "null"]

JUndefined == [t |-> "undefined"]

JNum(n) == [t |-> "num", num |-> n]

JNaN == [t |-> "nan"]

JStr(s) == [t |-> "str", str |-> s]

JArr(xs) == [t |-> "arr", items |-> xs]

JObj(ms) == [t |-> "obj", members |-> ms]

Member(k, v) == [key |-> k, value |-> v]

(* Tokens are pairs <<kind, text>> of strings. *)
Tok(kind, text) == <<kind, text>>

LBrace == Tok("punct", "{")

RBrace == Tok("punct", "}")

LBracket == Tok("punct", "[")

RBracket == Tok("punct", "]")

Comma == Tok("punct", ",")

Fence == Tok("fence", "3 backticks")

JsonWord == Tok("word", "json")

Ws == Tok("ws", " ")

Prose == Tok("word", "prose")

NullTok == Tok("lit", "null")

NumTexts == {"0.42", "1.5", "-0.2", "0", "1"}

(* the number a JSON number text denotes, in hundredths *)
NumVal(text) ==
    CASE text = "0.42" -> 42
      [] text = "1.5" -> 150
      [] text = "-0.2" -> 0 - 20
      [] text = "0" -> 0
      [] text = "1" -> 100

NumText(n) == CHOOSE text \in NumTexts : NumVal(text) = n

KeyTok(k) == Tok("key", k)

(* Serialisation of a value, as the model endpoint writes it (JSON.stringify) *)
RECURSIVE Render(_), RenderItems(_), RenderMembers(_)

Render(v) ==
    CASE v.t = "null" -> <<NullTok>>
      [] v.t = "num" -> <<Tok("num", NumText(v.num))>>
      [] v.t = "str" -> <<Tok("str", v.str)>>
      [] v.t = "arr" -> <<LBracket>> \o RenderItems(v.items) \o <<RBracket>>
      [] v.t = "obj" -> <<LBrace>> \o RenderMembers(v.members) \o <<RBrace>>

RenderItems(xs) ==
    IF xs = <<>> THEN <<>>
    ELSE IF Len(xs) = 1 THEN Render(xs[1])
    ELSE Render(xs[1]) \o <<Comma>> \o RenderItems(Tail(xs))

RenderMembers(ms) ==
    IF ms = <<>> THEN <<>>
    ELSE IF Len(ms) = 1 THEN <<KeyTok(ms[1].key)>> \o Render(ms[1].value)
    ELSE <<KeyTok(ms[1].key)>> \o Render(ms[1].value) \o <<Comma>>
             \o RenderMembers(Tail(ms))

-----------------------------------------------------------------------------
(* JSON.parse: white space between tokens is insignificant; the whole text *)
(* must be one value.  A failure stands for the SyntaxError it throws.     *)

ParseFail == [ok |-> FALSE]

ParseOk(v, next) == [ok |-> TRUE, v |-> v, next |-> next]

StripWs(toks) == SelectSeq(toks, LAMBDA tk : tk # Ws)

RECURSIVE ParseValue(_, _), ParseItems(_, _, _), ParseMembers(_, _, _)

ParseValue(s, i) ==
    IF i > Len(s) THEN ParseFail
    ELSE LET tk == s[i] IN
         CASE tk = NullTok -> ParseOk(JNull, i + 1)
           [] tk[1] = "num" -> ParseOk(JNum(NumVal(tk[2])), i + 1)
           [] tk[1] = "str" -> ParseOk(JStr(tk[2]), i + 1)
           [] tk = LBracket ->
                IF i + 1 <= Len(s) /\ s[i + 1] = RBracket
                THEN ParseOk(JArr(<<>>), i + 2)
                ELSE ParseItems(s, i + 1, <<>>)
           [] tk = LBrace ->
                IF i + 1 <= Len(s) /\ s[i + 1] = RBrace
                THEN ParseOk(JObj(<<>>), i + 2)
                ELSE ParseMembers(s, i + 1, <<>>)
           [] OTHER -> ParseFail

ParseItems(s, i, acc) ==
    LET r == ParseValue(s, i) IN
    IF ~r.ok \/ r.next > Len(s) THEN ParseFail
    ELSE IF s[r.next] = Comma THEN ParseItems(s, r.next + 1, Append(acc, r.v))
    ELSE IF s[r.next] = RBracket THEN ParseOk(JArr(Append(acc, r.v)), r.next + 1)
    ELSE ParseFail

ParseMembers(s, i, acc) ==
    IF i > Len(s) \/ s[i][1] # "key" THEN ParseFail
    ELSE LET r == ParseValue(s, i + 1) IN
         IF ~r.ok \/ r.next > Len(s) THEN ParseFail
         ELSE IF s[r.next] = Comma
              THEN ParseMembers(s, r.next + 1, Append(acc, Member(s[i][2], r.v)))
         ELSE IF s[r.next] = RBrace
              THEN ParseOk(JObj(Append(acc, Member(s[i][2], r.v))), r.next + 1)
         ELSE ParseFail

JSONparse(toks) ==
    LET s == StripWs(toks)
        r == ParseValue(s, 1)
    IN  IF r.ok /\ r.next = Len(s) + 1 THEN r ELSE ParseFail

-----------------------------------------------------------------------------
(* JavaScript's view of a parsed value *)

Truthy(v) ==
    CASE v.t = "null" -> FALSE
      [] v.t = "undefined" -> FALSE
      [] v.t = "nan" -> FALSE
      [] v.t = "num" -> v.num # 0
      [] v.t = "str" -> v.str # ""
      [] OTHER -> TRUE

(* obj.key: the last member of that name, undefined when there is none or *)
(* when obj is an array, a string or a number                             *)
Get(obj, key) ==
    IF obj.t # "obj" THEN JUndefined
    ELSE LET idx == {i \in 1..Len(obj.members) : obj.members[i].key = key}
         IN  IF idx = {} THEN JUndefined
             ELSE obj.members[CHOOSE i \in idx : \A j \in idx : j <= i].value

Labels == {"ai", "human", "uncertain"}

isFrame(obj) ==
    /\ Truthy(obj)
    /\ Get(obj, "frame").t = "num"
    /\ Get(obj, "ai_likelihood").t = "num"
    /\ Get(obj, "artifacts_detected").t = "arr"
    /\ Get(obj, "rationale").t = "str"

isFrameArray(obj) ==
    /\ obj.t = "arr"
    /\ Len(obj.items) > 0
    /\ \A i \in 1..Len(obj.items) : isFrame(obj.items[i])

isSummary(obj) ==
    /\ Truthy(obj)
    /\ Get(obj, "ai_generated_likelihood").t = "num"
    /\ Get(obj, "label").t = "str"
    /\ Get(obj, "label").str \in Labels
    /\ Get(obj, "artifacts_detected").t = "arr"
    /\ Get(obj, "rationale").t = "arr"

-----------------------------------------------------------------------------
(* parseAIDetectionOutput *)

NoError == "undefined"

EmptyTextError == "Empty analysis text"

ParseFailedError == "Failed to parse AI detection JSON from analysis output"

ParseResult(data, error) == [data |-> data, error |-> error]

(* the argument: a string (its tokens) or some other JavaScript value *)
TextArg(toks) == [isString |-> TRUE, toks |-> toks]

NonStringArg == [isString |-> FALSE, toks |-> <<>>]

(* tryParse with the shape check left out *)
tryParseUnchecked(s) ==
    LET r == JSONparse(s) IN IF r.ok THEN r.v ELSE JNull

tryParse(s) ==
    LET r == JSONparse(s)
    IN  IF r.ok /\ (isSummary(r.v) \/ isFrameArray(r.v)) THEN r.v ELSE JNull

Positions(toks, tk) == {i \in 1..Len(toks) : toks[i] = tk}

(* String.indexOf and lastIndexOf, 0 standing for -1 *)
indexOf(toks, tk) ==
    LET ps == Positions(toks, tk)
    IN  IF ps = {} THEN 0 ELSE CHOOSE i \in ps : \A j \in ps : i <= j

lastIndexOf(toks, tk) ==
    LET ps == Positions(toks, tk)
    IN  IF ps = {} THEN 0 ELSE CHOOSE i \in ps : \A j \in ps : j <= i

RECURSIVE SkipWs(_, _)

SkipWs(toks, i) ==
    IF i <= Len(toks) /\ toks[i] = Ws THEN SkipWs(toks, i + 1) ELSE i

(* a RegExp object: its flags and its lastIndex, counted in tokens *)
Regex(flags, lastIndex) == [flags |-> flags, lastIndex |-> lastIndex]

(* the same regex kept in one global-flag object that every call shares *)
codeBlockRegexSharedGlobal(left) == Regex({"g", "i"}, left.lastIndex)

(* the regex literal inside parseAIDetectionOutput: every call evaluates   *)
(* it to a new object, whatever an earlier call left behind                *)
codeBlockRegex(left) == Regex({"i"}, 0)

(* RegExp.prototype.exec for /```(?:json)?\s*([\s\S]*?)```/: group 1 (<<>>  *)
(* when there is no match) and the object afterwards.  Only a global or    *)
(* sticky regex starts at its lastIndex and moves it.                      *)
exec(re, toks) ==
    LET moves == re.flags \cap {"g", "y"} # {}
        start == IF moves THEN re.lastIndex + 1 ELSE 1
        opens == {i \in start..Len(toks) : toks[i] = Fence}
        open == IF opens = {} THEN 0 ELSE CHOOSE i \in opens : \A j \in opens : i <= j
        afterTag == IF open # 0 /\ open + 1 <= Len(toks) /\ toks[open + 1] = JsonWord
                    THEN open + 2 ELSE open + 1
        from == SkipWs(toks, afterTag)
        closes == {i \in from..Len(toks) : toks[i] = Fence}
        close == CHOOSE i \in closes : \A j \in closes : i <= j
    IN  IF open = 0 \/ closes = {}
        THEN [group |-> <<>>, re |-> IF moves THEN Regex(re.flags, 0) ELSE re]
        ELSE [group |-> SubSeq(toks, from, close - 1),
              re |-> IF moves THEN Regex(re.flags, close) ELSE re]

(* group 1 of /```(?:json)?\s*([\s\S]*?)```/i, <<>> when there is no match *)
codeBlock(toks) == exec(codeBlockRegex(regexObject), toks).group

Span(toks, openTk, closeTk) ==
    LET start == indexOf(toks, openTk)
        end == lastIndexOf(toks, closeTk)
    IN  IF start # 0 /\ end # 0 /\ end > start THEN SubSeq(toks, start, end) ELSE <<>>

(* the four steps of the chain, each giving the data it found or null *)
Step1(toks) == tryParse(toks)

Step2(toks) == IF codeBlock(toks) # <<>> THEN tryParse(codeBlock(toks)) ELSE JNull

Step3(toks) ==
    IF Span(toks, LBrace, RBrace) # <<>> THEN tryParse(Span(toks, LBrace, RBrace)) ELSE JNull

Step4(toks) ==
    IF Span(toks, LBracket, RBracket) # <<>>
    THEN tryParse(Span(toks, LBracket, RBracket)) ELSE JNull

(* a chain that gives up at the first candidate that is valid JSON of no   *)
(* known shape                                                             *)
parseStoppingAtUnknownShape(text) ==
    LET toks == text.toks
        ends(c) == c # <<>> /\ JSONparse(c).ok /\ ~Truthy(tryParse(c))
    IN  IF ~text.isString \/ toks = <<>> THEN ParseResult(JNull, EmptyTextError)
        ELSE IF Truthy(Step1(toks)) THEN ParseResult(Step1(toks), NoError)
        ELSE IF ends(toks) THEN ParseResult(JNull, ParseFailedError)
        ELSE IF Truthy(Step2(toks)) THEN ParseResult(Step2(toks), NoError)
        ELSE IF ends(codeBlock(toks)) THEN ParseResult(JNull, ParseFailedError)
        ELSE IF Truthy(Step3(toks)) THEN ParseResult(Step3(toks), NoError)
        ELSE IF ends(Span(toks, LBrace, RBrace)) THEN ParseResult(JNull, ParseFailedError)
        ELSE IF Truthy(Step4(toks)) THEN ParseResult(Step4(toks), NoError)
        ELSE ParseResult(JNull, ParseFailedError)

parseAIDetectionOutput(text) ==
    IF ~text.isString \/ text.toks = <<>> THEN ParseResult(JNull, EmptyTextError)
    ELSE IF Truthy(Step1(text.toks)) THEN ParseResult(Step1(text.toks), NoError)
    ELSE IF Truthy(Step2(text.toks)) THEN ParseResult(Step2(text.toks), NoError)
    ELSE IF Truthy(Step3(text.toks)) THEN ParseResult(Step3(text.toks), NoError)
    ELSE IF Truthy(Step4(text.toks)) THEN ParseResult(Step4(text.toks), NoError)
    ELSE ParseResult(JNull, ParseFailedError)

-----------------------------------------------------------------------------
(* Raw model texts for the parser run *)

MaxFrameObjects == 2

MaxParseCalls == 2

MaxOtherCalls == 1

Likelihoods == {42, 150, 0 - 20}

SnakeSummary(l) ==
    JObj(<<Member("ai_generated_likelihood", JNum(l)), Member("label", JStr("ai")),
           Member("artifacts_detected", JArr(<<>>)),
           Member("rationale", JArr(<<JStr("text")>>))>>)

(* the summary object the prompts ask the model for *)
CamelSummary(l) ==
    JObj(<<Member("aiGeneratedLikelihood", JNum(l)),
           Member("artifactsDetected", JArr(<<>>)), Member("rationale", JArr(<<>>)),
           Member("whatIsIt", JArr(<<>>)), Member("howToBehave", JArr(<<>>))>>)

FrameObject(l) ==
    JObj(<<Member("frame", JNum(100)), Member("ai_likelihood", JNum(l)),
           Member("artifacts_detected", JArr(<<JStr("text")>>)),
           Member("rationale", JStr("text"))>>)

FrameArray(l, n) == JArr([i \in 1..n |-> FrameObject(l)])

(* values of no known shape *)
OtherValues ==
    { JNull, JNum(42), JStr("text"), JArr(<<>>), JObj(<<>>),
      JArr(<<JStr("text")>>),
      JObj(<<Member("ai_generated_likelihood", JNum(42)), Member("label", JStr("text")),
             Member("artifacts_detected", JArr(<<>>)), Member("rationale", JArr(<<>>))>>),
      JObj(<<Member("ai_generated_likelihood", JStr("text")), Member("label", JStr("ai")),
             Member("artifacts_detected", JArr(<<>>)), Member("rationale", JArr(<<>>))>>),
      FrameObject(42),
      JArr(<<FrameObject(42), JStr("text")>>),
      JObj(<<Member("frames", FrameArray(42, 1))>>) }

SnakeValues == {SnakeSummary(l) : l \in Likelihoods}

CamelValues == {CamelSummary(l) : l \in Likelihoods}

FrameArrayValues == {FrameArray(l, n) : l \in Likelihoods, n \in 1..MaxFrameObjects}

JsonValues == SnakeValues \cup CamelValues \cup FrameArrayValues \cup OtherValues

Embeddings == {"plain", "fenced", "fenced json", "prose", "prose with braces",
               "prose with brackets", "truncated", "two blocks",
               "fenced then notes"}

(* the text that carries value v in the given way *)
Embed(v, how) ==
    CASE how = "plain" -> Render(v)
      [] how = "fenced" -> <<Prose, Ws, Fence, Ws>> \o Render(v) \o <<Ws, Fence>>
      [] how = "fenced json" ->
            <<Prose, Ws, Fence, JsonWord, Ws>> \o Render(v) \o <<Ws, Fence>>
      [] how = "prose" -> <<Prose, Ws>> \o Render(v) \o <<Ws, Prose>>
      [] how = "prose with braces" ->
            <<Prose, LBrace, Prose, RBrace, Ws>> \o Render(v) \o <<Ws, Prose>>
      [] how = "prose with brackets" ->
            <<LBracket, Prose, RBracket, Ws>> \o Render(v) \o <<Ws, Prose>>
      [] how = "truncated" -> SubSeq(Render(v), 1, Len(Render(v)) - 1)
      [] how = "fenced then notes" ->
            <<Fence, JsonWord, Ws>> \o Render(v)
                \o <<Ws, Fence, Ws, LBrace, Prose, RBrace, Ws, LBracket, Prose, RBracket>>
      [] how = "two blocks" ->
            <<Fence, Ws, Prose, Ws, Fence, Ws>> \o Render(v) \o <<Ws, Prose>>

-----------------------------------------------------------------------------
(* The Analysis Client.  A frame path is given by the state of its file.   *)

FileStates == {"ok", "empty", "missing"}

ClientRevs == {"part_015", "part_014", "part_009"}

TextOutcome(text) == [kind |-> "text", msg |-> text]

ErrorOutcome(msg) == [kind |-> "error", msg |-> msg]

NoOutcome == [kind |-> "none", msg |-> ""]

NoFramePathsError == "No frame paths provided"

FrameMissingError == "Frame file does not exist"

FrameEmptyError == "Frame file is empty"

AudioMissingError == "Audio file does not exist"

AudioEmptyError == "Audio file is empty"

NoFramesExtractedError == "Analysis failed: No frames extracted from video for analysis"

BillingText == "Unable to analyze frames: OpenAI API billing issue. Please check your account."

FrameCap009 == 10

Min(a, b) == IF a <= b THEN a ELSE b

(* paths.map(p => ...): the first path whose file is missing or empty throws *)
FirstBadFrame(paths) ==
    LET bad == {i \in 1..Len(paths) : paths[i] # "ok"}
    IN  IF bad = {} THEN 0 ELSE CHOOSE i \in bad : \A j \in bad : i <= j

FrameFileError(state) ==
    IF state = "missing" THEN FrameMissingError ELSE FrameEmptyError

(* the checks of the frames with the test for an empty list left out *)
checkFramesNoLengthTest(paths) ==
    IF FirstBadFrame(paths) # 0 THEN FrameFileError(paths[FirstBadFrame(paths)])
    ELSE "ok"

(* analyzeFrameWithOpenAI up to its first await: "ok" or the Error thrown *)
checkFrames(paths) ==
    IF Len(paths) = 0 THEN NoFramePathsError
    ELSE IF FirstBadFrame(paths) # 0 THEN FrameFileError(paths[FirstBadFrame(paths)])
    ELSE "ok"

checkAudio(audio) ==
    IF audio = "missing" THEN AudioMissingError
    ELSE IF audio = "empty" THEN AudioEmptyError
    ELSE "ok"

(* framePaths.filter(exists and size > 0), as indices into framePaths *)
existing(paths) == SelectSeq([i \in 1..Len(paths) |-> i], LAMBDA i : paths[i] = "ok")

(* what the client does before it awaits the network: "ok" or an Error *)
ClientPrecheck(rev, paths, audio) ==
    CASE rev = "part_015" -> checkFrames(paths)
      [] rev = "part_014" ->
            IF checkFrames(paths) # "ok" THEN checkFrames(paths) ELSE checkAudio(audio)
      [] rev = "part_009" ->
            IF Len(existing(paths)) = 0 THEN NoFramesExtractedError ELSE "ok"

(* a client that attaches the first frame only *)
ClientFirstFrameOnly(rev, paths) == IF Len(paths) = 0 THEN <<>> ELSE <<1>>

(* the frames attached to the one model request *)
ClientFramesSent(rev, paths) ==
    IF rev = "part_009"
    THEN SubSeq(existing(paths), 1, Min(Len(existing(paths)), FrameCap009))
    ELSE [i \in 1..Len(paths) |-> i]

UpstreamFailures == {"billing", "rate limit", "api error"}

(* the outcome of the client when the model request fails upstream *)
ClientOnFailure(rev, failure) ==
    IF rev = "part_009"
    THEN IF failure = "billing" THEN TextOutcome(BillingText)
         ELSE ErrorOutcome("Analysis failed")
    ELSE ErrorOutcome(failure)

ModelTexts == {"model text"}

ClientStart ==
    /\ cPc = "idle"
    /\ IF ClientPrecheck(cRev, cFrames, cAudio) # "ok"
       THEN /\ cPc' = "threw"
            /\ cOutcome' = ErrorOutcome(ClientPrecheck(cRev, cFrames, cAudio))
            /\ UNCHANGED <<cCalls, cSent>>
       ELSE IF cRev = "part_014"
       THEN /\ cPc' = "transcribing"
            /\ cCalls' = Append(cCalls, "audio.transcriptions.create")
            /\ UNCHANGED <<cSent, cOutcome>>
       ELSE /\ cPc' = "responding"
            /\ cCalls' = Append(cCalls, "responses.create")
            /\ cSent' = ClientFramesSent(cRev, cFrames)
            /\ UNCHANGED cOutcome
    /\ UNCHANGED <<cRev, cFrames, cAudio>>

TranscriptionReturns ==
    /\ cPc = "transcribing"
    /\ cPc' = "responding"
    /\ cCalls' = Append(cCalls, "responses.create")
    /\ cSent' = ClientFramesSent(cRev, cFrames)
    /\ UNCHANGED <<cRev, cFrames, cAudio, cOutcome>>

TranscriptionFails ==
    /\ cPc = "transcribing"
    /\ \E failure \in UpstreamFailures :
          cOutcome' = ErrorOutcome(failure)
    /\ cPc' = "threw"
    /\ UNCHANGED <<cRev, cFrames, cAudio, cCalls, cSent>>

ResponseReturns ==
    /\ cPc = "responding"
    /\ \E text \in ModelTexts : cOutcome' = TextOutcome(text)
    /\ cPc' = "returned"
    /\ UNCHANGED <<cRev, cFrames, cAudio, cCalls, cSent>>

ResponseFails ==
    /\ cPc = "responding"
    /\ \E failure \in UpstreamFailures :
          /\ cOutcome' = ClientOnFailure(cRev, failure)
          /\ cPc' = IF ClientOnFailure(cRev, failure).kind = "text"
                    THEN "returned" ELSE "threw"
    /\ UNCHANGED <<cRev, cFrames, cAudio, cCalls, cSent>>

-----------------------------------------------------------------------------
(* The upload pipeline: uploadVideo (three revisions of the controller),   *)
(* extractAndAnalyze, extractFrames, extractAudio, the fine-tune handler,  *)
(* and the uploads directory they share.  Code between two awaits runs     *)
(* without interleaving (one event loop), so each action is one such run.  *)

NumRequests == 2

MaxFrames == 2

Requests == 1..NumRequests

UploadRevs == {"video.ts", "part_005", "part_004"}

(* Directories under uploads/.  Date.now() plus a random suffix names the  *)
(* frames-* and audio-* folders; one folder name per invocation stands for *)
(* that.  frames-for-fine-tuning is the one fixed name.                    *)
FramesDir(r) == <<"frames-", r>>

AudioDir(r) == <<"audio-", r>>

FineTuneDir == <<"frames-for-fine-tuning", 0>>

DirNames == {FramesDir(r) : r \in Requests} \cup {AudioDir(r) : r \in Requests}
                \cup {FineTuneDir}

(* item.startsWith('frames-') *)
StartsWithFrames(d) == d[1] \in {"frames-", "frames-for-fine-tuning"}

NoResponse ==
    [status |-> 0, success |-> FALSE, raw |-> <<>>, parsed |-> JUndefined,
     parseError |-> NoError]

ErrorResponse(status) ==
    [status |-> status, success |-> FALSE, raw |-> <<>>, parsed |-> JUndefined,
     parseError |-> NoError]

(* buildSuccessResponse, had it refused a text the parser rejects *)
buildResponseFailingOnParseError(rawAnalysis, parsedAnalysis) ==
    IF parsedAnalysis.error # NoError
    THEN [status |-> 502, success |-> FALSE, raw |-> <<>>, parsed |-> JUndefined,
          parseError |-> NoError]
    ELSE [status |-> 200, success |-> TRUE, raw |-> rawAnalysis,
          parsed |-> parsedAnalysis.data, parseError |-> parsedAnalysis.error]

(* buildSuccessResponse *)
buildSuccessResponse(rawAnalysis, parsedAnalysis) ==
    [status |-> 200, success |-> TRUE, raw |-> rawAnalysis,
     parsed |-> parsedAnalysis.data, parseError |-> parsedAnalysis.error]

Range(seq) == {seq[i] : i \in 1..Len(seq)}

(* the finally block of extractAndAnalyze *)
FinallyEvents == <<"rm frames", "rm audio">>

(* the cleanup calls of the controller: cleanupVideoFile and, in the later *)
(* revisions, cleanupExtractedFrames                                       *)
CleanupEvents(r) ==
    CASE r = "video.ts" -> <<"cleanup", "rm video">>
      [] r = "part_005" -> <<"cleanup", "rm video", "rm frame files">>
      [] r = "part_004" -> <<"cleanup", "rm video", "rm frames-*">>

(* the success path with the video removed before the response is sent *)
SuccessTailCleanupFirst(r) == <<"parse">> \o CleanupEvents(r) \o <<"respond">>

(* the success path with a cleanup that throws into the catch block after  *)
(* the response was sent                                                   *)
SuccessTailCleanupThrows(r) == <<"parse", "respond">> \o CleanupEvents(r) \o <<"respond">>

(* uploadVideo after a successful analysis: parse, respond, clean up *)
SuccessTail(r) == <<"parse", "respond">> \o CleanupEvents(r)

(* uploadVideo when extractAndAnalyze reported failure (502) *)
FailureTail(r) ==
    IF r = "part_004" THEN CleanupEvents(r) \o <<"respond">> ELSE <<"respond">>

(* the catch block of uploadVideo (500) *)
CatchTail(r) ==
    IF r = "part_004" THEN CleanupEvents(r) \o <<"respond">> ELSE <<"respond">>

(* req.file as multer leaves it: absent, or with a MIME type and a size (MB) *)
NoFile == [present |-> FALSE, mimetype |-> "", size |-> 0]

File(mimetype, size) == [present |-> TRUE, mimetype |-> mimetype, size |-> size]

ALLOWED_VIDEO_TYPES ==
    {"video/mp4", "video/avi", "video/mov", "video/quicktime", "video/wmv",
     "video/webm", "video/mkv", "video/x-msvideo"}

(* 100 * 1024 * 1024 bytes, in MB *)
MAX_FILE_SIZE == 100

InvalidTypeError == "Invalid file type"

FileTooLargeError == "File too large"

(* validateVideoFile with the size check left out *)
validateVideoFileNoSizeCheck(file) ==
    IF file.mimetype \notin ALLOWED_VIDEO_TYPES
    THEN [isValid |-> FALSE, error |-> InvalidTypeError]
    ELSE [isValid |-> TRUE, error |-> NoError]

validateVideoFile(file) ==
    IF file.mimetype \notin ALLOWED_VIDEO_TYPES
    THEN [isValid |-> FALSE, error |-> InvalidTypeError]
    ELSE IF file.size > MAX_FILE_SIZE
    THEN [isValid |-> FALSE, error |-> FileTooLargeError]
    ELSE [isValid |-> TRUE, error |-> NoError]

(* the uploads the requests are made with *)
UploadFiles ==
    {NoFile, File("video/mp4", MAX_FILE_SIZE), File("video/mp4", MAX_FILE_SIZE + 1),
     File("image/png", 1)}

(* triggerFrameStreaming and broadcastAnalysisStatus are called by the two *)
(* later revisions of the controller                                       *)
BroadcastEvents(r) == IF r = "video.ts" THEN <<>> ELSE <<"broadcast">>

InFlight == {"extractingFrames", "extractingAudio", "transcribing", "analyzing",
             "ftExtracting"}

(* the directories a run of cleanup steps of request r removes:            *)
(* safeRemoveFolder(folder), safeRemoveFolder(audioFolder), and the loop   *)
(* of cleanupExtractedFrames over every frames-* directory of uploads/     *)
RemovedBy(evs, r) ==
    {d \in dirs :
        \/ d = FramesDir(r) /\ "rm frames" \in Range(evs)
        \/ d = AudioDir(r) /\ "rm audio" \in Range(evs)
        \/ StartsWithFrames(d) /\ "rm frames-*" \in Range(evs)}

(* the frame paths extractFrames returned, by the state of each file now *)
FramePaths(r) ==
    [i \in 1..frameCount[r] |->
        IF FramesDir(r) \in dirs /\ i \in files[FramesDir(r)] THEN "ok" ELSE "missing"]

(* a run of the handler to its end: the steps evs, then the response *)
Finish(r, evs, resp) ==
    /\ pc' = [pc EXCEPT ![r] = "done"]
    /\ response' = [response EXCEPT ![r] = resp]
    /\ log' = [log EXCEPT ![r] = @ \o evs]
    /\ videos' = IF "rm video" \in Range(evs) THEN videos \ {r} ELSE videos
    /\ dirs' = dirs \ RemovedBy(evs, r)
    /\ files' = [d \in DirNames |-> IF d \in RemovedBy(evs, r) THEN {} ELSE files[d]]
    /\ crossDeleted' = crossDeleted \cup
          {<<r, b>> : b \in {q \in Requests \ {r} :
                                /\ pc[q] \in InFlight
                                /\ \/ FramesDir(q) \in RemovedBy(evs, r)
                                   \/ /\ reqKind[q] = "finetune"
                                      /\ FineTuneDir \in RemovedBy(evs, r)}}

(* POST /api/upload-video: multer has stored the file (if any); uploadVideo *)
(* runs to its first await on the extractor subprocess                     *)
UploadRequest(r, file) ==
    /\ pc[r] = "idle"
    /\ reqKind' = [reqKind EXCEPT ![r] = "upload"]
    /\ uploaded' = [uploaded EXCEPT ![r] = file]
    /\ IF ~file.present
       THEN /\ Finish(r, <<"respond">>, ErrorResponse(400))
            /\ UNCHANGED users
       ELSE IF ~validateVideoFile(file).isValid
       THEN /\ Finish(r, <<"validate", "rm video", "respond">>, ErrorResponse(400))
            /\ UNCHANGED users
       ELSE /\ pc' = [pc EXCEPT ![r] = "extractingFrames"]
            /\ videos' = videos \cup {r}
            /\ dirs' = dirs \cup {FramesDir(r)}
            /\ users' = [users EXCEPT ![FramesDir(r)] = @ \cup {r}]
            /\ log' = [log EXCEPT ![r] =
                          @ \o <<"validate">> \o BroadcastEvents(ctlRev) \o <<"extractFrames">>]
            /\ UNCHANGED <<files, response, crossDeleted>>
    /\ UNCHANGED <<ctlRev, frameCount, calls, answer>>

(* ffmpeg 'end' of extractFrames: the folder is listed, then extractAudio  *)
(* makes its folder and starts its subprocess                              *)
FramesEnd(r, n) ==
    /\ UNCHANGED <<uploaded, answer>>
    /\ pc[r] = "extractingFrames"
    /\ FramesDir(r) \in dirs
    /\ pc' = [pc EXCEPT ![r] = "extractingAudio"]
    /\ files' = [files EXCEPT ![FramesDir(r)] = 1..n]
    /\ frameCount' = [frameCount EXCEPT ![r] = n]
    /\ dirs' = dirs \cup {AudioDir(r)}
    /\ users' = [users EXCEPT ![AudioDir(r)] = @ \cup {r}]
    /\ log' = [log EXCEPT ![r] = @ \o <<"framesExtracted", "extractAudio">>]
    /\ UNCHANGED <<ctlRev, reqKind, videos, calls, response, crossDeleted>>

(* ffmpeg 'error' of extractFrames, or its folder is gone when it is listed: *)
(* the exception leaves extractAndAnalyze before its try block             *)
FramesFail(r) ==
    /\ UNCHANGED <<uploaded, answer>>
    /\ pc[r] = "extractingFrames"
    /\ Finish(r, <<"extractor failed">> \o CatchTail(ctlRev), ErrorResponse(500))
    /\ UNCHANGED <<ctlRev, reqKind, frameCount, calls, users>>

(* ffmpeg 'end' of extractAudio: the try block is entered and the client   *)
(* runs to its first await                                                 *)
AudioEnd(r) ==
    /\ UNCHANGED <<uploaded, answer>>
    /\ pc[r] = "extractingAudio"
    /\ IF ClientPrecheck("part_014", FramePaths(r), "ok") # "ok"
       THEN /\ Finish(r, <<"audioExtracted", "analyze">> \o FinallyEvents
                              \o FailureTail(ctlRev), ErrorResponse(502))
            /\ UNCHANGED calls
       ELSE /\ pc' = [pc EXCEPT ![r] = "transcribing"]
            /\ files' = [files EXCEPT ![AudioDir(r)] = {1}]
            /\ calls' = [calls EXCEPT ![r] = Append(@, "audio.transcriptions.create")]
            /\ log' = [log EXCEPT ![r] = @ \o <<"audioExtracted", "analyze">>]
            /\ UNCHANGED <<videos, dirs, response, crossDeleted>>
    /\ UNCHANGED <<ctlRev, reqKind, frameCount, users>>

(* ffmpeg 'error' of extractAudio *)
AudioFail(r) ==
    /\ UNCHANGED <<uploaded, answer>>
    /\ pc[r] = "extractingAudio"
    /\ Finish(r, <<"extractor failed">> \o CatchTail(ctlRev), ErrorResponse(500))
    /\ UNCHANGED <<ctlRev, reqKind, frameCount, calls, users>>

ReqTranscriptionReturns(r) ==
    /\ UNCHANGED <<uploaded, answer>>
    /\ pc[r] = "transcribing"
    /\ pc' = [pc EXCEPT ![r] = "analyzing"]
    /\ calls' = [calls EXCEPT ![r] = Append(@, "responses.create")]
    /\ UNCHANGED <<ctlRev, reqKind, videos, dirs, files, frameCount, response, log,
                   crossDeleted, users>>

ReqTranscriptionFails(r) ==
    /\ UNCHANGED <<uploaded, answer>>
    /\ pc[r] = "transcribing"
    /\ Finish(r, FinallyEvents \o FailureTail(ctlRev), ErrorResponse(502))
    /\ UNCHANGED <<ctlRev, reqKind, frameCount, calls, users>>

(* the model answers with text: extractAndAnalyze returns through its      *)
(* finally block and uploadVideo runs to its end                           *)
ReqAnalysisReturns(r, text) ==
    /\ pc[r] = "analyzing"
    /\ answer' = [answer EXCEPT ![r] = text]
    /\ UNCHANGED uploaded
    /\ IF text = <<>>
       THEN Finish(r, <<"analyzed">> \o FinallyEvents \o FailureTail(ctlRev),
                   ErrorResponse(502))
       ELSE Finish(r, <<"analyzed">> \o FinallyEvents \o SuccessTail(ctlRev),
                   buildSuccessResponse(text, parseAIDetectionOutput(TextArg(text))))
    /\ UNCHANGED <<ctlRev, reqKind, frameCount, calls, users>>

ReqAnalysisFails(r) ==
    /\ UNCHANGED <<uploaded, answer>>
    /\ pc[r] = "analyzing"
    /\ Finish(r, FinallyEvents \o FailureTail(ctlRev), ErrorResponse(502))
    /\ UNCHANGED <<ctlRev, reqKind, frameCount, calls, users>>

(* POST /api/fine-tune/upload-video: processFineTuneVideo up to the await  *)
(* in extractFramesForFineTuning (the folder is cleared or created)        *)
FineTuneRequest(r, hasFile) ==
    /\ pc[r] = "idle"
    /\ UNCHANGED <<uploaded, answer>>
    /\ reqKind' = [reqKind EXCEPT ![r] = "finetune"]
    /\ IF ~hasFile
       THEN /\ Finish(r, <<"respond">>, ErrorResponse(400))
            /\ UNCHANGED users
       ELSE /\ pc' = [pc EXCEPT ![r] = "ftExtracting"]
            /\ videos' = videos \cup {r}
            /\ dirs' = dirs \cup {FineTuneDir}
            /\ files' = [files EXCEPT ![FineTuneDir] = {}]
            /\ users' = [users EXCEPT ![FineTuneDir] = @ \cup {r}]
            /\ log' = [log EXCEPT ![r] = @ \o <<"extractFramesForFineTuning">>]
            /\ UNCHANGED <<response, crossDeleted>>
    /\ UNCHANGED <<ctlRev, frameCount, calls>>

(* ffmpeg 'end' of extractFramesForFineTuning: the folder is listed and    *)
(* the 200 response carries every file found in it                         *)
FineTuneEnd(r, n) ==
    /\ UNCHANGED <<uploaded, answer>>
    /\ pc[r] = "ftExtracting"
    /\ FineTuneDir \in dirs
    /\ pc' = [pc EXCEPT ![r] = "done"]
    /\ files' = [files EXCEPT ![FineTuneDir] = @ \cup 1..n]
    /\ frameCount' = [frameCount EXCEPT ![r] = Cardinality(files[FineTuneDir] \cup 1..n)]
    /\ response' = [response EXCEPT ![r] = [ErrorResponse(200) EXCEPT !.success = TRUE]]
    /\ log' = [log EXCEPT ![r] = @ \o <<"framesExtracted", "respond">>]
    /\ UNCHANGED <<ctlRev, reqKind, videos, dirs, calls, crossDeleted, users>>

(* ffmpeg 'error', or the folder is gone when it is listed: the catch block *)
FineTuneFail(r) ==
    /\ UNCHANGED <<uploaded, answer>>
    /\ pc[r] = "ftExtracting"
    /\ Finish(r, <<"extractor failed", "respond">>, ErrorResponse(500))
    /\ UNCHANGED <<ctlRev, reqKind, frameCount, calls, users>>

-----------------------------------------------------------------------------
(* Frame selection: which of the extracted frames are handed to the model. *)
(* The input list is 1..n in temporal order; a selection is the sequence   *)
(* of input positions sent.                                                *)

SampleRevs == {"part_010", "part_011", "part_003", "recording.ts"}

(* const MAX_FRAMES = 10 of extractAndAnalyze *)
MAX_FRAMES == 10

(* frames.length <= 6 ... .slice(0, 6) of the recording analysis *)
RandomCap == 6

(* frames.slice(0, 3) of the recording analysis *)
SliceCap == 3

InputFrames(n) == [i \in 1..n |-> i]

(* frames[Math.floor((i * frames.length) / MAX_FRAMES)] for i = 0..MAX_FRAMES-1 *)
sampledFrames(frames) ==
    IF Len(frames) <= MAX_FRAMES THEN frames
    ELSE [k \in 1..MAX_FRAMES |-> frames[(((k - 1) * Len(frames)) \div MAX_FRAMES) + 1]]

(* .map(sort: Math.random()).sort(...).slice(0, 6): any RandomCap distinct *)
(* frames, in any order                                                    *)
randomFrames(frames) ==
    IF Len(frames) <= RandomCap THEN {frames}
    ELSE {[k \in 1..RandomCap |-> frames[f[k]]] :
            f \in {g \in [1..RandomCap -> 1..Len(frames)] :
                     \A a, b \in 1..RandomCap : a # b => g[a] # g[b]}}

(* the selections each revision can make of the frames given *)
Selections(rev, frames) ==
    CASE rev = "part_010" -> {sampledFrames(frames)}
      [] rev = "part_011" -> {frames}
      [] rev = "part_003" -> randomFrames(frames)
      [] rev = "recording.ts" -> {SubSeq(frames, 1, Min(Len(frames), SliceCap))}

Select ==
    /\ sPc = "idle"
    /\ sSent' \in Selections(sRev, InputFrames(sCount))
    /\ sPc' = "sent"
    /\ UNCHANGED <<sRev, sCount>>

-----------------------------------------------------------------------------
(* The Progress Broadcaster (ws.ts) and the newest uploadVideo as it calls *)
(* it.  One upload request is followed; extractAndAnalyze is one awaited   *)
(* call that reports success, reports failure or throws.  Every connected  *)
(* client is OPEN.  ws.send may throw, and an unlink may fail.             *)

NumConns == 2

MaxTicks == 2

Conns == 1..NumConns

UploadKinds == {"none", "invalid", "valid"}

AnalysisResults == {"ok", "failed", "threw"}

(* stopFrameStreaming: the entry of activeStreams for the path, if any, is *)
(* stopped and removed                                                     *)
stopFrameStreaming(st, act) == IF act = 0 THEN st ELSE [st EXCEPT ![act] = "stopped"]

(* broadcastAnalysisStatus: returns, or lets the exception of ws.send out *)
broadcastAnalysisStatus(up, sendThrows) ==
    IF up /\ sendThrows /\ Conns # {} THEN "threw" ELSE "returned"

(* triggerFrameStreaming: per open client, streamFramesFromVideo up to its *)
(* first await; an exception of its first send (outside the try of         *)
(* streamFramesFromVideo) rejects the dropped promise of that call only    *)
triggerFrameStreaming(st, up, sendThrows) ==
    IF ~up THEN st
    ELSE [c \in Conns |-> IF sendThrows THEN "ended" ELSE "extracting"]

(* cleanupVideoFile: the file is gone unless unlinkSync failed *)
cleanupVideoFile(video, unlinkFails) == IF unlinkFails THEN video ELSE "deleted"

(* the catch block of uploadVideo *)
CatchBlock(steps, unlinkFails) ==
    /\ stream' = stopFrameStreaming(stream, active)
    /\ active' = 0
    /\ stopCalled' = TRUE
    /\ bVideo' = cleanupVideoFile("present", unlinkFails)
    /\ bSteps' = bSteps \o steps \o <<"catch", "stop", "cleanup", "respond">>
    /\ bResponses' = Append(bResponses, 500)
    /\ bPc' = "done"

(* uploadVideo from the request to its await on extractAndAnalyze *)
BUpload(file, sendThrows, unlinkFails) ==
    /\ bPc = "idle"
    /\ bFile' = file
    /\ CASE file = "none" ->
              /\ bResponses' = Append(bResponses, 400)
              /\ bSteps' = bSteps \o <<"respond">>
              /\ bPc' = "done"
              /\ UNCHANGED <<stream, active, stopCalled, bVideo>>
         [] file = "invalid" ->
              IF unlinkFails
              THEN CatchBlock(<<"validate", "unlink threw">>, unlinkFails)
              ELSE /\ bVideo' = "deleted"
                   /\ bResponses' = Append(bResponses, 400)
                   /\ bSteps' = bSteps \o <<"validate", "unlink", "respond">>
                   /\ bPc' = "done"
                   /\ UNCHANGED <<stream, active, stopCalled>>
         [] file = "valid" ->
              IF broadcastAnalysisStatus(wss, sendThrows) = "threw"
              THEN /\ stream' = stopFrameStreaming(
                                    triggerFrameStreaming(stream, wss, sendThrows), active)
                   /\ active' = 0
                   /\ stopCalled' = TRUE
                   /\ bVideo' = cleanupVideoFile("present", unlinkFails)
                   /\ bSteps' = bSteps \o <<"validate", "trigger", "broadcast threw",
                                            "catch", "stop", "cleanup", "respond">>
                   /\ bResponses' = Append(bResponses, 500)
                   /\ bPc' = "done"
              ELSE /\ stream' = triggerFrameStreaming(stream, wss, sendThrows)
                   /\ bVideo' = "present"
                   /\ bSteps' = bSteps \o <<"validate", "trigger", "broadcast starting",
                                            "broadcast processing", "extractAndAnalyze">>
                   /\ bPc' = "awaiting"
                   /\ UNCHANGED <<active, stopCalled, bResponses>>
    /\ UNCHANGED <<wss, bResult, lateFrames, ticks>>

(* uploadVideo from the return of extractAndAnalyze to its end *)
BSettle(result, sendThrows, unlinkFails) ==
    /\ bPc = "awaiting"
    /\ bResult' = result
    /\ IF result = "threw"
       THEN CatchBlock(<<>>, unlinkFails)
       ELSE IF broadcastAnalysisStatus(wss, sendThrows) = "threw"
       THEN CatchBlock(IF result = "ok" THEN <<"parse", "broadcast threw">>
                       ELSE <<"broadcast threw">>, unlinkFails)
       ELSE /\ stream' = stopFrameStreaming(stream, active)
            /\ active' = 0
            /\ stopCalled' = TRUE
            /\ bVideo' = cleanupVideoFile("present", unlinkFails)
            /\ bSteps' = bSteps \o
                  (IF result = "ok"
                   THEN <<"parse", "broadcast completed", "stop", "respond", "cleanup">>
                   ELSE <<"broadcast error", "stop", "cleanup", "respond">>)
            /\ bResponses' = Append(bResponses, IF result = "ok" THEN 200 ELSE 502)
            /\ bPc' = "done"
    /\ UNCHANGED <<wss, bFile, lateFrames, ticks>>

(* a client sends { type: 'start', videoPath } for the uploaded file *)
ClientStartsStream(c) ==
    /\ wss
    /\ bVideo = "present"
    /\ stream[c] = "none"
    /\ stream' = [stream EXCEPT ![c] = "extracting"]
    /\ UNCHANGED <<wss, bPc, bFile, bResult, bSteps, bResponses, bVideo, active,
                   stopCalled, lateFrames, ticks>>

(* the preview extraction of connection c ends with frames: the stream is  *)
(* put into activeStreams under the path and its interval is started       *)
PreviewEnd(c) ==
    /\ stream[c] = "extracting"
    /\ stream' = [stream EXCEPT ![c] = "looping"]
    /\ active' = c
    /\ UNCHANGED <<wss, bPc, bFile, bResult, bSteps, bResponses, bVideo, stopCalled,
                   lateFrames, ticks>>

(* the preview extraction fails or yields no frame *)
PreviewFail(c) ==
    /\ stream[c] = "extracting"
    /\ stream' = [stream EXCEPT ![c] = "ended"]
    /\ UNCHANGED <<wss, bPc, bFile, bResult, bSteps, bResponses, bVideo, active,
                   stopCalled, lateFrames, ticks>>

(* the interval callback of connection c: isStreaming is still true, so a  *)
(* frame event is sent                                                     *)
Tick(c) ==
    /\ stream[c] = "looping"
    /\ ticks[c] < MaxTicks
    /\ ticks' = [ticks EXCEPT ![c] = @ + 1]
    /\ lateFrames' = IF stopCalled THEN lateFrames \cup {c} ELSE lateFrames
    /\ UNCHANGED <<wss, bPc, bFile, bResult, bSteps, bResponses, bVideo, stream, active,
                   stopCalled>>

-----------------------------------------------------------------------------
(* How the analysis functions report a failure of the model call.  An       *)
(* error message is a sequence of characters, and String.includes is the   *)
(* search for a contiguous subsequence.                                    *)

MaxErrorCalls == 2

ErrorRevs == {"analyzeSingleFrameWithOpenAI", "analyzeFrameWithOpenAI",
              "analyzeFramesWithOpenAI"}

includes(message, sub) ==
    \E i \in 0..(Len(message) - Len(sub)) :
        \A k \in 1..Len(sub) : message[i + k] = sub[k]

billing == <<"b", "i", "l", "l", "i", "n", "g">>

quota == <<"q", "u", "o", "t", "a">>

rate == <<"r", "a", "t", "e">>

gpt41 == <<"g", "p", "t", "-", "4", ".", "1">>

(* what the model call did: it answered, or it threw an Error with a message *)
Upstream(kind, message) == [kind |-> kind, message |-> message]

UpstreamResults ==
    { Upstream("ok", <<"t", "e", "x", "t">>),
      Upstream("billing", billing \o <<" ">> \o <<"h", "o", "l", "d">>),
      Upstream("quota", <<"n", "o", " ">> \o quota),
      Upstream("rate", rate \o <<" ">> \o <<"l", "i", "m", "i", "t">>),
      Upstream("api", <<"s", "e", "r", "v", "e", "r">>),
      Upstream("timeout", <<"t", "i", "m", "e", "d", " ", "o", "u", "t">>) }

Returned(text) == [how |-> "returned", label |-> "text", detail |-> text]

Thrown(label, detail) == [how |-> "thrown", label |-> label, detail |-> detail]

(* frameAnalysis.ts, analyzeSingleFrameWithOpenAI *)
analyzeSingleFrameWithOpenAI(up) ==
    IF up.kind = "ok" THEN Returned(up.message)
    ELSE IF includes(up.message, billing) \/ includes(up.message, quota)
    THEN Thrown("OpenAI API billing issue", <<>>)
    ELSE IF includes(up.message, rate)
    THEN Thrown("OpenAI API rate limit exceeded", <<>>)
    ELSE Thrown("AI analysis failed: ", up.message)

(* frameAnalysis.ts, analyzeFrameWithOpenAI *)
analyzeFrameWithOpenAI(up) ==
    IF up.kind = "ok" THEN Returned(up.message)
    ELSE IF includes(up.message, billing)
    THEN Returned(<<"Unable to analyze image: OpenAI API billing issue">>)
    ELSE IF includes(up.message, gpt41)
    THEN Returned(<<"GPT-4.1 model not available">>)
    ELSE Thrown("GPT-4.1 analysis failed: ", up.message)

(* analyzeFramesWithOpenAI of the several-frames service *)
analyzeFramesWithOpenAI(up) ==
    IF up.kind = "ok" THEN Returned(up.message)
    ELSE IF includes(up.message, billing)
    THEN Returned(<<"Unable to analyze frames: OpenAI API billing issue">>)
    ELSE Thrown("Analysis failed: ", up.message)

Report(rev, up) ==
    CASE rev = "analyzeSingleFrameWithOpenAI" -> analyzeSingleFrameWithOpenAI(up)
      [] rev = "analyzeFrameWithOpenAI" -> analyzeFrameWithOpenAI(up)
      [] OTHER -> analyzeFramesWithOpenAI(up)

(* one call of the analysis function, with what the model call did *)
AnalysisCall(up) ==
    /\ Len(eCalls) < MaxErrorCalls
    /\ eCalls' = Append(eCalls, [upstream |-> up, outcome |-> Report(eRev, up)])
    /\ UNCHANGED eRev

-----------------------------------------------------------------------------
(* What the handlers put into a failure response.  A message is a sequence *)
(* of parts; a part is fixed text or a filesystem path of the server.  An  *)
(* Error has a message and a stack; Node's fs errors name the path of the  *)
(* failed call in their message.                                           *)

MaxHandled == 2

Text(s) == <<"text", s>>

Path(p) == <<"path", p>>

Absent == <<>>

FsError(syscall, p) ==
    [message |-> <<Text("EACCES: permission denied, " \o syscall \o " "), Path(p)>>,
     stack |-> <<Text("Error: EACCES\n    at Object." \o syscall \o "Sync (node:fs)")>>]

ApiError ==
    [message |-> <<Text("429 You exceeded your current quota")>>,
     stack |-> <<Text("Error: 429\n    at APIError.generate")>>]

Handlers == {"uploadVideo", "processFineTuneVideo", "handleRecording",
             "handleScreenshot", "handleAudio", "ws start"}

Inputs == {"missing", "invalid", "ok"}

Faults == {"none", "fs", "api"}

Json(status, success, error, details) ==
    [channel |-> "http", status |-> status,
     body |-> [success |-> success, error |-> error, details |-> details]]

WsMessage(type, message) ==
    [channel |-> "ws", status |-> 0,
     body |-> [success |-> (type # "error"), error |-> message, details |-> Absent]]

(* video.ts, uploadVideo: the 502 carries the error.message that           *)
(* extractAndAnalyze caught                                                *)
uploadVideoResponse(input, fault) ==
    CASE input = "missing" -> Json(400, FALSE, <<Text("No video file provided.")>>, Absent)
      [] input = "invalid" ->
           Json(400, FALSE, <<Text("Invalid file type: image/png.")>>, Absent)
      [] fault = "fs" ->
           Json(502, FALSE, FsError("open", "uploads/frames-1/frame-00001.jpg").message,
                Absent)
      [] fault = "api" -> Json(502, FALSE, ApiError.message, Absent)
      [] OTHER -> Json(200, TRUE, Absent, Absent)

(* processFineTuneVideo: the 500 carries error.message as details *)
processFineTuneVideoResponse(input, fault) ==
    CASE input = "missing" -> Json(400, FALSE, <<Text("No video file provided.")>>, Absent)
      [] fault = "fs" ->
           Json(500, FALSE,
                <<Text("Internal server error during fine-tune video processing")>>,
                FsError("mkdir", "uploads/fine-tune-frames-1").message)
      [] OTHER -> Json(200, TRUE, Absent, Absent)

(* handleRecording, handleScreenshot, handleAudio: the 500 carries the     *)
(* error.message of whatever was thrown                                    *)
saveHandlerResponse(dir, input, fault) ==
    CASE input = "missing" -> Json(400, FALSE, <<Text("No data provided")>>, Absent)
      [] fault = "fs" -> Json(500, FALSE, FsError("mkdir", dir).message, Absent)
      [] OTHER -> Json(200, TRUE, Absent, Absent)

(* the 'message' handler of the WebSocket server *)
wsStartResponse(input, fault) ==
    CASE input = "missing" ->
           WsMessage("error", <<Text("File not found: "), Path("uploads/video-1.mp4")>>)
      [] input = "invalid" -> WsMessage("error", <<Text("Unsupported message.")>>)
      [] fault = "fs" -> WsMessage("error", FsError("mkdir", "uploads/frames-1").message)
      [] OTHER -> WsMessage("status", <<Text("Extracting frames for preview")>>)

Respond(handler, input, fault) ==
    CASE handler = "uploadVideo" -> uploadVideoResponse(input, fault)
      [] handler = "processFineTuneVideo" -> processFineTuneVideoResponse(input, fault)
      [] handler = "handleRecording" -> saveHandlerResponse("recordings/session_1", input, fault)
      [] handler = "handleScreenshot" -> saveHandlerResponse("screenshots", input, fault)
      [] handler = "handleAudio" -> saveHandlerResponse("audio-recordings", input, fault)
      [] OTHER -> wsStartResponse(input, fault)

(* one request handled from its arrival to its response *)
Handle(handler, input, fault) ==
    /\ Len(hLog) < MaxHandled
    /\ hLog' = Append(hLog, [handler |-> handler] @@ Respond(handler, input, fault))

-----------------------------------------------------------------------------
(* The recording endpoint: handleRecording with its analyzeFramesWithOpenAI *)
(* in the three revisions of the controller.  Numbers are in hundredths:    *)
(* JNum(50) is 0.5.                                                         *)

MaxRecordingFrames == 2

RecordingRevs == {"part_003", "recording.ts:162", "recording.ts:365"}

(* Number(v) as Math.min and Math.max apply it *)
ToNumber(v) ==
    CASE v.t = "num" -> v
      [] v.t = "null" -> JNum(0)
      [] v.t = "str" -> IF v.str = "0.8" THEN JNum(80)
                        ELSE IF v.str = "" THEN JNum(0) ELSE JNaN
      [] OTHER -> JNaN

(* parseFloat(v): the leading decimal number of String(v), NaN without one *)
parseFloat(v) ==
    CASE v.t = "num" -> v
      [] v.t = "str" -> IF v.str = "0.8" THEN JNum(80) ELSE JNaN
      [] OTHER -> JNaN

(* a || b *)
Or(a, b) == IF Truthy(a) THEN a ELSE b

MathMin(a, b) ==
    LET x == ToNumber(a)
        y == ToNumber(b)
    IN  IF x.t = "nan" \/ y.t = "nan" THEN JNaN
        ELSE IF x.num <= y.num THEN x ELSE y

MathMax(a, b) ==
    LET x == ToNumber(a)
        y == ToNumber(b)
    IN  IF x.t = "nan" \/ y.t = "nan" THEN JNaN
        ELSE IF x.num >= y.num THEN x ELSE y

LikelihoodField(rev) ==
    IF rev = "part_003" THEN "synthetic_likelihood" ELSE "aiGeneratedLikelihood"

(* what openai.chat.completions.create did *)
ModelReply(kind, value) == [kind |-> kind, value |-> value]

ReplyUsernames == {JStr("alice"), JStr("unknown"), JUndefined}

ReplyLikelihoods == {JNum(90), JNum(50), JNum(150), JStr("0.8"), JStr("high"), JUndefined}

ReplyObject(rev, u, l) ==
    JObj((IF u = JUndefined THEN <<>> ELSE <<Member("username", u)>>)
         \o (IF l = JUndefined THEN <<>> ELSE <<Member(LikelihoodField(rev), l)>>))

ModelReplies(rev) ==
    {ModelReply("api error", JUndefined), ModelReply("no content", JUndefined),
     ModelReply("not json", JUndefined), ModelReply("json", JNull)}
    \cup {ModelReply("json", ReplyObject(rev, u, l)) :
              u \in ReplyUsernames, l \in ReplyLikelihoods}

Analysis(username, likelihood) == [username |-> username, likelihood |-> likelihood]

Fallback == Analysis("unknown", JNum(0))

NoAnalysis == Analysis("", JUndefined)

(* analyzeFramesWithOpenAI: a thrown API error, a missing content, a       *)
(* SyntaxError of JSON.parse and a TypeError on null all end in a catch    *)
(* block that returns the fallback                                         *)
analyzeRecordedFrames(rev, reply) ==
    IF reply.kind # "json" \/ reply.value.t # "obj" THEN Fallback
    ELSE LET given == Get(reply.value, LikelihoodField(rev))
             number == IF rev = "recording.ts:162" THEN Or(parseFloat(given), JNum(0))
                       ELSE Or(given, JNum(0))
         IN  Analysis(Or(Get(reply.value, "username"), JStr("unknown")).str,
                      MathMax(JNum(0), MathMin(JNum(100), number)))

(* analysis.synthetic_likelihood > 0.5 && analysis.username !== 'unknown' *)
StoreAttempted(rev, analysis) ==
    /\ rev = "part_003"
    /\ analysis.likelihood.t = "num"
    /\ analysis.likelihood.num > 50
    /\ analysis.username # "unknown"

(* storeAIDetectedUsername: success unless there is no client or the       *)
(* insert throws                                                           *)
storeAIDetectedUsername(configured, insertFails) == configured /\ ~insertFails

(* safeRemoveDirectory as the handler calls it; the handler at             *)
(* recording.ts:365 has no such call                                       *)
safeRemoveDirectory(rev, dir, rmFails) ==
    IF rev = "recording.ts:365" \/ dir = "none" \/ rmFails THEN dir ELSE "removed"

RecordingResponse(status, analysis, stored) ==
    [status |-> status, analysis |-> analysis, stored |-> stored]

(* handleRecording from the request to its await on the analysis *)
RecordingRequest(n, fault, rmFails) ==
    /\ rPc = "idle"
    /\ rFrames' = n
    /\ CASE n = 0 ->
              /\ rResponse' = RecordingResponse(400, NoAnalysis, FALSE)
              /\ rPc' = "done"
              /\ UNCHANGED <<rDir, rFiles>>
         [] n > 0 /\ fault = "mkdir" ->
              /\ rResponse' = RecordingResponse(500, NoAnalysis, FALSE)
              /\ rPc' = "done"
              /\ rDir' = safeRemoveDirectory(rRev, "none", rmFails)
              /\ UNCHANGED rFiles
         [] n > 0 /\ fault = "write" ->
              /\ rResponse' = RecordingResponse(500, NoAnalysis, FALSE)
              /\ rPc' = "done"
              /\ rDir' = safeRemoveDirectory(rRev, "present", rmFails)
              /\ rFiles' = IF rDir' = "removed" THEN 0 ELSE n - 1
         [] OTHER ->
              /\ rDir' = "present"
              /\ rFiles' = n + 1
              /\ rPc' = "analyzing"
              /\ UNCHANGED rResponse
    /\ UNCHANGED <<rRev, rDbConfigured, rReply, rStored>>

(* handleRecording from the return of the analysis to the response *)
RecordingAnalysisReturns(reply, insertFails, rmFails) ==
    /\ rPc = "analyzing"
    /\ rReply' = reply
    /\ LET analysis == analyzeRecordedFrames(rRev, reply)
           stored == /\ StoreAttempted(rRev, analysis)
                     /\ storeAIDetectedUsername(rDbConfigured, insertFails)
       IN  /\ rStored' = IF stored THEN Append(rStored, analysis) ELSE rStored
           /\ rResponse' = RecordingResponse(200, analysis, stored)
    /\ rDir' = safeRemoveDirectory(rRev, rDir, rmFails)
    /\ rFiles' = IF rDir' = "removed" THEN 0 ELSE rFiles
    /\ rPc' = "done"
    /\ UNCHANGED <<rRev, rDbConfigured, rFrames>>

-----------------------------------------------------------------------------
(* The frame list an extractor returns after ffmpeg has ended.  A file of  *)
(* the output folder is its frame number and its size; file names are      *)
(* sequences of character codes.                                           *)

MaxListed == 2

ListingRevs == {"extractFrames", "extractMultipleFrames", "extractFramesForFineTuning"}

(* frame numbers of files found in the folder, a sample of a long run *)
FrameIndexes == {1, 2, 10, 99999, 100000}

FrameFile(index, size) == [index |-> index, size |-> size]

FolderContents ==
    {fs \in SUBSET {FrameFile(i, s) : i \in FrameIndexes, s \in {0, 1}} :
        /\ Cardinality(fs) <= MaxListed
        /\ \A f, g \in fs : f.index = g.index => f = g}

RECURSIVE Digits(_)

(* the decimal digits of n as character codes *)
Digits(n) == IF n < 10 THEN <<48 + n>> ELSE Digits(n \div 10) \o <<48 + (n % 10)>>

RECURSIVE PadStart(_, _)

PadStart(ds, width) == IF Len(ds) >= width THEN ds ELSE PadStart(<<48>> \o ds, width)

(* the number part of the name ffmpeg gives frame n, up to the "." of the  *)
(* extension: frame-%05d.jpg, frame-%i.jpg, %d.jpg                         *)
NameOf(rev, n) ==
    (IF rev = "extractFrames" THEN PadStart(Digits(n), 5) ELSE Digits(n)) \o <<46>>

RECURSIVE LexLess(_, _)

(* a < b for strings, by UTF-16 code units: the default of Array.sort *)
LexLess(a, b) ==
    IF b = <<>> THEN FALSE
    ELSE IF a = <<>> THEN TRUE
    ELSE IF a[1] # b[1] THEN a[1] < b[1]
    ELSE LexLess(Tail(a), Tail(b))

(* the comparison the extractor sorts its listing with *)
Before(rev, f, g) ==
    IF rev = "extractFrames" THEN LexLess(NameOf(rev, f.index), NameOf(rev, g.index))
    ELSE f.index < g.index

RECURSIVE SortFiles(_, _)

SortFiles(rev, fs) ==
    IF fs = {} THEN <<>>
    ELSE LET first == CHOOSE f \in fs : \A g \in fs \ {f} : Before(rev, f, g)
         IN  <<first>> \o SortFiles(rev, fs \ {first})

(* readdirSync, the filter on the name, the sort; no extractor looks at    *)
(* the size of a file                                                      *)
ListFrames(rev, fs) == SortFiles(rev, fs)

(* ffmpeg has ended: the extractor lists its folder and returns the frames *)
ExtractorLists ==
    /\ xPc = "extracting"
    /\ xFrames' = ListFrames(xRev, xDir)
    /\ xPc' = "returned"
    /\ UNCHANGED <<xRev, xDir>>

-----------------------------------------------------------------------------
(* Specifications *)

NotCalled == [data |-> JUndefined, error |-> "not called"]

IdleParser ==
    /\ raw = NonStringArg
    /\ embedded = JNull
    /\ shapeOfText = "plain"
    /\ parsed = NotCalled
    /\ parseCalls = 0
    /\ parsedBefore = NotCalled
    /\ otherCalls = 0
    /\ regexObject = Regex({"i"}, 0)

IdleClient ==
    /\ cRev = "part_015"
    /\ cFrames = <<>>
    /\ cAudio = "missing"
    /\ cPc = "idle"
    /\ cCalls = <<>>
    /\ cSent = <<>>
    /\ cOutcome = NoOutcome

IdlePipeline ==
    /\ ctlRev = "part_004"
    /\ pc = [r \in Requests |-> "idle"]
    /\ reqKind = [r \in Requests |-> "none"]
    /\ videos = {}
    /\ dirs = {}
    /\ files = [d \in DirNames |-> {}]
    /\ frameCount = [r \in Requests |-> 0]
    /\ calls = [r \in Requests |-> <<>>]
    /\ response = [r \in Requests |-> NoResponse]
    /\ log = [r \in Requests |-> <<>>]
    /\ crossDeleted = {}
    /\ users = [d \in DirNames |-> {}]
    /\ uploaded = [r \in Requests |-> NoFile]
    /\ answer = [r \in Requests |-> <<>>]

IdleSample ==
    /\ sRev = "part_010"
    /\ sCount = 0
    /\ sSent = <<>>
    /\ sPc = "idle"

IdleBroadcast ==
    /\ wss = FALSE
    /\ bPc = "idle"
    /\ bFile = "none"
    /\ bResult = "none"
    /\ bSteps = <<>>
    /\ bResponses = <<>>
    /\ bVideo = "absent"
    /\ stream = [c \in Conns |-> "none"]
    /\ active = 0
    /\ stopCalled = FALSE
    /\ lateFrames = {}
    /\ ticks = [c \in Conns |-> 0]

IdleErrors ==
    /\ eRev = "analyzeSingleFrameWithOpenAI"
    /\ eCalls = <<>>

IdleResponses == hLog = <<>>

IdleRecording ==
    /\ rRev = "part_003"
    /\ rPc = "idle"
    /\ rFrames = 0
    /\ rDir = "none"
    /\ rFiles = 0
    /\ rDbConfigured = FALSE
    /\ rReply = ModelReply("none", JUndefined)
    /\ rStored = <<>>
    /\ rResponse = RecordingResponse(0, NoAnalysis, FALSE)

IdleListing ==
    /\ xRev = "extractFrames"
    /\ xDir = {}
    /\ xFrames = <<>>
    /\ xPc = "returned"

InitParse ==
    /\ IdleClient
    /\ IdlePipeline
    /\ IdleSample
    /\ IdleBroadcast
    /\ IdleErrors
    /\ IdleResponses
    /\ IdleRecording
    /\ IdleListing
    /\ \E v \in JsonValues, how \in Embeddings :
          /\ embedded = v
          /\ shapeOfText = how
          /\ raw \in {TextArg(Embed(v, how)), TextArg(<<>>), TextArg(<<Prose>>),
                      NonStringArg}
    /\ parsed = NotCalled
    /\ parseCalls = 0
    /\ parsedBefore = NotCalled
    /\ otherCalls = 0
    /\ regexObject = Regex({"i"}, 0)

(* the regex object after a call on text: the literal is reached only when *)
(* the text is a non-empty string that step 1 did not accept               *)
RegexAfterCall(text) ==
    IF text.isString /\ text.toks # <<>> /\ ~Truthy(Step1(text.toks))
    THEN exec(codeBlockRegex(regexObject), text.toks).re
    ELSE regexObject

OtherTexts == {TextArg(Embed(SnakeSummary(42), "fenced")), TextArg(<<Prose>>)}

(* one call parseAIDetectionOutput(raw) *)
ParseCall ==
    /\ parseCalls < MaxParseCalls
    /\ parsed' = parseAIDetectionOutput(raw)
    /\ parsedBefore' = parsed
    /\ regexObject' = RegexAfterCall(raw)
    /\ parseCalls' = parseCalls + 1
    /\ UNCHANGED <<raw, embedded, shapeOfText, otherCalls>>
    /\ UNCHANGED clientVars
    /\ UNCHANGED pipelineVars
    /\ UNCHANGED sampleVars
    /\ UNCHANGED broadcastVars
    /\ UNCHANGED errorVars
    /\ UNCHANGED responseVars
    /\ UNCHANGED recordingVars
    /\ UNCHANGED listingVars

(* a call of the parser on another text, between the calls on raw *)
ParseOtherCall(text) ==
    /\ otherCalls < MaxOtherCalls
    /\ regexObject' = RegexAfterCall(text)
    /\ otherCalls' = otherCalls + 1
    /\ UNCHANGED <<raw, embedded, shapeOfText, parsed, parsedBefore, parseCalls>>
    /\ UNCHANGED clientVars
    /\ UNCHANGED pipelineVars
    /\ UNCHANGED sampleVars
    /\ UNCHANGED broadcastVars
    /\ UNCHANGED errorVars
    /\ UNCHANGED responseVars
    /\ UNCHANGED recordingVars
    /\ UNCHANGED listingVars

NextParse == ParseCall \/ \E text \in OtherTexts : ParseOtherCall(text)

SpecParse == InitParse /\ [][NextParse]_vars

MaxClientFrames == 3

FrameLists == UNION {[1..n -> FileStates] : n \in 0..MaxClientFrames}

InitClient ==
    /\ IdleParser
    /\ IdlePipeline
    /\ IdleSample
    /\ IdleBroadcast
    /\ IdleErrors
    /\ IdleResponses
    /\ IdleRecording
    /\ IdleListing
    /\ cRev \in ClientRevs
    /\ cFrames \in FrameLists
    /\ cAudio \in FileStates
    /\ cPc = "idle"
    /\ cCalls = <<>>
    /\ cSent = <<>>
    /\ cOutcome = NoOutcome

NextClient ==
    /\ \/ ClientStart
       \/ TranscriptionReturns
       \/ TranscriptionFails
       \/ ResponseReturns
       \/ ResponseFails
    /\ UNCHANGED parserVars
    /\ UNCHANGED pipelineVars
    /\ UNCHANGED sampleVars
    /\ UNCHANGED broadcastVars
    /\ UNCHANGED errorVars
    /\ UNCHANGED responseVars
    /\ UNCHANGED recordingVars
    /\ UNCHANGED listingVars

SpecClient == InitClient /\ [][NextClient]_vars

(* texts the model endpoint may answer with *)
PipelineTexts ==
    { Embed(SnakeSummary(150), "fenced json"), Embed(CamelSummary(42), "plain"), <<>> }

(* how many frame files an extraction leaves: none, or some *)
FrameCounts == {0, MaxFrames}

Init ==
    /\ IdleParser
    /\ IdleClient
    /\ IdleSample
    /\ IdleBroadcast
    /\ IdleErrors
    /\ IdleResponses
    /\ IdleRecording
    /\ IdleListing
    /\ ctlRev \in UploadRevs
    /\ pc = [r \in Requests |-> "idle"]
    /\ reqKind = [r \in Requests |-> "none"]
    /\ videos = {}
    /\ dirs = {}
    /\ files = [d \in DirNames |-> {}]
    /\ frameCount = [r \in Requests |-> 0]
    /\ calls = [r \in Requests |-> <<>>]
    /\ response = [r \in Requests |-> NoResponse]
    /\ log = [r \in Requests |-> <<>>]
    /\ crossDeleted = {}
    /\ users = [d \in DirNames |-> {}]
    /\ uploaded = [r \in Requests |-> NoFile]
    /\ answer = [r \in Requests |-> <<>>]

Next ==
    /\ \E r \in Requests :
          \/ \E file \in UploadFiles : UploadRequest(r, file)
          \/ \E n \in FrameCounts : FramesEnd(r, n)
          \/ FramesFail(r)
          \/ AudioEnd(r)
          \/ AudioFail(r)
          \/ ReqTranscriptionReturns(r)
          \/ ReqTranscriptionFails(r)
          \/ \E text \in PipelineTexts : ReqAnalysisReturns(r, text)
          \/ ReqAnalysisFails(r)
          \/ \E hasFile \in BOOLEAN : FineTuneRequest(r, hasFile)
          \/ \E n \in FrameCounts : FineTuneEnd(r, n)
          \/ FineTuneFail(r)
    /\ UNCHANGED parserVars
    /\ UNCHANGED clientVars
    /\ UNCHANGED sampleVars
    /\ UNCHANGED broadcastVars
    /\ UNCHANGED errorVars
    /\ UNCHANGED responseVars
    /\ UNCHANGED recordingVars
    /\ UNCHANGED listingVars

Spec == Init /\ [][Next]_vars

MaxExtracted == 11

MaxRecorded == 7

(* the recording analysis is given the screenshots of one recording; the   *)
(* upload pipeline the frames of one video                                 *)
InitSample ==
    /\ IdleParser
    /\ IdleClient
    /\ IdlePipeline
    /\ IdleBroadcast
    /\ IdleErrors
    /\ IdleResponses
    /\ IdleRecording
    /\ IdleListing
    /\ sRev \in SampleRevs
    /\ sCount \in 0..(IF sRev = "part_003" THEN MaxRecorded ELSE MaxExtracted)
    /\ sSent = <<>>
    /\ sPc = "idle"

NextSample ==
    /\ Select
    /\ UNCHANGED parserVars
    /\ UNCHANGED clientVars
    /\ UNCHANGED pipelineVars
    /\ UNCHANGED broadcastVars
    /\ UNCHANGED errorVars
    /\ UNCHANGED responseVars
    /\ UNCHANGED recordingVars
    /\ UNCHANGED listingVars

SpecSample == InitSample /\ [][NextSample]_vars

(* What the runtime guarantees without the model endpoint: an ffmpeg       *)
(* subprocess that was started ends ('end' or 'error').  Nothing in the    *)
(* code bounds the wait for openai.audio.transcriptions.create or          *)
(* openai.responses.create, so no fairness is stated for the endpoint.     *)
ExtractorSettles(r) ==
    /\ \/ \E n \in FrameCounts : FramesEnd(r, n)
       \/ FramesFail(r)
       \/ AudioEnd(r)
       \/ AudioFail(r)
       \/ \E n \in FrameCounts : FineTuneEnd(r, n)
       \/ FineTuneFail(r)
    /\ UNCHANGED parserVars
    /\ UNCHANGED clientVars
    /\ UNCHANGED sampleVars
    /\ UNCHANGED broadcastVars
    /\ UNCHANGED errorVars
    /\ UNCHANGED responseVars
    /\ UNCHANGED recordingVars
    /\ UNCHANGED listingVars

SpecLive == Init /\ [][Next]_vars /\ \A r \in Requests : WF_vars(ExtractorSettles(r))

InitBroadcast ==
    /\ IdleParser
    /\ IdleClient
    /\ IdlePipeline
    /\ IdleSample
    /\ IdleErrors
    /\ IdleResponses
    /\ IdleRecording
    /\ IdleListing
    /\ wss \in BOOLEAN
    /\ bPc = "idle"
    /\ bFile = "none"
    /\ bResult = "none"
    /\ bSteps = <<>>
    /\ bResponses = <<>>
    /\ bVideo = "absent"
    /\ stream = [c \in Conns |-> "none"]
    /\ active = 0
    /\ stopCalled = FALSE
    /\ lateFrames = {}
    /\ ticks = [c \in Conns |-> 0]

NextBroadcast ==
    /\ \/ \E file \in UploadKinds, sendThrows, unlinkFails \in BOOLEAN :
             BUpload(file, sendThrows, unlinkFails)
       \/ \E result \in AnalysisResults, sendThrows, unlinkFails \in BOOLEAN :
             BSettle(result, sendThrows, unlinkFails)
       \/ \E c \in Conns : ClientStartsStream(c)
       \/ \E c \in Conns : PreviewEnd(c)
       \/ \E c \in Conns : PreviewFail(c)
       \/ \E c \in Conns : Tick(c)
    /\ UNCHANGED parserVars
    /\ UNCHANGED clientVars
    /\ UNCHANGED pipelineVars
    /\ UNCHANGED sampleVars
    /\ UNCHANGED errorVars
    /\ UNCHANGED responseVars
    /\ UNCHANGED recordingVars
    /\ UNCHANGED listingVars

SpecBroadcast == InitBroadcast /\ [][NextBroadcast]_vars

InitErrors ==
    /\ IdleParser
    /\ IdleClient
    /\ IdlePipeline
    /\ IdleSample
    /\ IdleBroadcast
    /\ IdleResponses
    /\ IdleRecording
    /\ IdleListing
    /\ eRev \in ErrorRevs
    /\ eCalls = <<>>

NextErrors ==
    /\ \E up \in UpstreamResults : AnalysisCall(up)
    /\ UNCHANGED parserVars
    /\ UNCHANGED clientVars
    /\ UNCHANGED pipelineVars
    /\ UNCHANGED sampleVars
    /\ UNCHANGED broadcastVars
    /\ UNCHANGED responseVars
    /\ UNCHANGED recordingVars
    /\ UNCHANGED listingVars

SpecErrors == InitErrors /\ [][NextErrors]_vars

InitResponses ==
    /\ IdleParser
    /\ IdleClient
    /\ IdlePipeline
    /\ IdleSample
    /\ IdleBroadcast
    /\ IdleErrors
    /\ IdleRecording
    /\ IdleListing
    /\ hLog = <<>>

NextResponses ==
    /\ \E handler \in Handlers, input \in Inputs, fault \in Faults :
          Handle(handler, input, fault)
    /\ UNCHANGED parserVars
    /\ UNCHANGED clientVars
    /\ UNCHANGED pipelineVars
    /\ UNCHANGED sampleVars
    /\ UNCHANGED broadcastVars
    /\ UNCHANGED errorVars
    /\ UNCHANGED recordingVars
    /\ UNCHANGED listingVars

SpecResponses == InitResponses /\ [][NextResponses]_vars

InitRecording ==
    /\ IdleParser
    /\ IdleClient
    /\ IdlePipeline
    /\ IdleSample
    /\ IdleBroadcast
    /\ IdleErrors
    /\ IdleResponses
    /\ IdleListing
    /\ rRev \in RecordingRevs
    /\ rDbConfigured \in BOOLEAN
    /\ rPc = "idle"
    /\ rFrames = 0
    /\ rDir = "none"
    /\ rFiles = 0
    /\ rReply = ModelReply("none", JUndefined)
    /\ rStored = <<>>
    /\ rResponse = RecordingResponse(0, NoAnalysis, FALSE)

NextRecording ==
    /\ \/ \E n \in 0..MaxRecordingFrames, fault \in {"none", "mkdir", "write"},
             rmFails \in BOOLEAN : RecordingRequest(n, fault, rmFails)
       \/ \E reply \in ModelReplies(rRev), insertFails, rmFails \in BOOLEAN :
             RecordingAnalysisReturns(reply, insertFails, rmFails)
    /\ UNCHANGED parserVars
    /\ UNCHANGED clientVars
    /\ UNCHANGED pipelineVars
    /\ UNCHANGED sampleVars
    /\ UNCHANGED broadcastVars
    /\ UNCHANGED errorVars
    /\ UNCHANGED responseVars
    /\ UNCHANGED listingVars

SpecRecording == InitRecording /\ [][NextRecording]_vars

InitListing ==
    /\ IdleParser
    /\ IdleClient
    /\ IdlePipeline
    /\ IdleSample
    /\ IdleBroadcast
    /\ IdleErrors
    /\ IdleResponses
    /\ IdleRecording
    /\ xRev \in ListingRevs
    /\ xDir \in FolderContents
    /\ xFrames = <<>>
    /\ xPc = "extracting"

NextListing ==
    /\ ExtractorLists
    /\ UNCHANGED parserVars
    /\ UNCHANGED clientVars
    /\ UNCHANGED pipelineVars
    /\ UNCHANGED sampleVars
    /\ UNCHANGED broadcastVars
    /\ UNCHANGED errorVars
    /\ UNCHANGED responseVars
    /\ UNCHANGED recordingVars

SpecListing == InitListing /\ [][NextListing]_vars

-----------------------------------------------------------------------------
(* Claims about the Output Parser, checked under SpecParse *)

CarriesEmbedded == raw = TextArg(Embed(embedded, shapeOfText))

CleanEmbeddings == {"plain", "fenced", "fenced json", "prose"}

(* C7: a text that carries one valid JSON value of a known result shape    *)
(* (summary object or per-frame array), plain, fenced or wrapped in prose, *)
(* is parsed to exactly that value with no error; the summary object of    *)
(* the prompts (aiGeneratedLikelihood, artifactsDetected, rationale,       *)
(* whatIsIt, howToBehave) is one of the known shapes.                      *)
C7_ParserReturnsEmbeddedValue ==
    (/\ parseCalls > 0
     /\ CarriesEmbedded
     /\ shapeOfText \in CleanEmbeddings
     /\ embedded \in SnakeValues \cup CamelValues \cup FrameArrayValues)
        => parsed = ParseResult(embedded, NoError)

(* C8: every call returns either data of a known shape with no error, or   *)
(* null data with a non-empty error message; it never throws.              *)
C8_ParserTotalAndStrict ==
    parseCalls > 0 =>
        \/ /\ parsed.error = NoError
           /\ isSummary(parsed.data) \/ isFrameArray(parsed.data)
        \/ /\ parsed.data = JNull
           /\ parsed.error \in {EmptyTextError, ParseFailedError}

C8_Witness ==
    /\ parseCalls > 0
    /\ CarriesEmbedded
    /\ embedded \in OtherValues
    /\ embedded.t = "obj"
    /\ shapeOfText = "plain"
    /\ parsed = ParseResult(JNull, ParseFailedError)

-----------------------------------------------------------------------------
(* Claims about the Analysis Client, checked under SpecClient *)

NoValidFrame == \A i \in 1..Len(cFrames) : cFrames[i] # "ok"

-----------------------------------------------------------------------------
(* Claims about the upload pipeline, checked under Spec *)

Done(r) == pc[r] = "done"

Steps(r) == Range(log[r])

(* the request passed validation and reached the extractor *)
Validated(r) == reqKind[r] = "upload" /\ "extractFrames" \in Steps(r)

(* position of the first occurrence of step e in the log of r, 0 if none *)
StepAt(r, e) ==
    IF e \in Steps(r)
    THEN CHOOSE i \in 1..Len(log[r]) :
            log[r][i] = e /\ \A j \in 1..(i - 1) : log[r][j] # e
    ELSE 0

(* if step b happened, step a happened before it *)
Precedes(r, a, b) == b \in Steps(r) => (a \in Steps(r) /\ StepAt(r, a) < StepAt(r, b))

RemovalSteps == {"rm video", "rm frames", "rm audio", "rm frames-*", "rm frame files"}

(* C1: once a validated upload request has completed (200, 502 or 500),    *)
(* neither its frames-* folder nor its audio-* folder exists on disk.      *)
C1_NoExtractionDirRemains ==
    \A r \in Requests :
        (Done(r) /\ Validated(r)) =>
            (FramesDir(r) \notin dirs /\ AudioDir(r) \notin dirs)

(* C2: the cleanup of one request never deletes the frames directory of    *)
(* another request that is still in flight.                                *)
C2_CleanupRemovesOnlyOwn == crossDeleted = {}

(* C3: no output directory is written into or cleared by more than one     *)
(* extractor invocation.                                                   *)
C3_OutputDirNeverShared == \A d \in DirNames : Cardinality(users[d]) <= 1

(* C4: on every terminal path of uploadVideo (400, 200, 502, 500) the      *)
(* uploaded video file is gone from disk.                                  *)
C4_UploadedVideoDeleted ==
    \A r \in Requests : (Done(r) /\ reqKind[r] = "upload") => r \notin videos

(* the order of the pipeline steps within one request *)
StepOrder(r) ==
    /\ Precedes(r, "framesExtracted", "analyze")
    /\ Precedes(r, "audioExtracted", "analyze")
    /\ Precedes(r, "analyzed", "parse")
    /\ Precedes(r, "parse", "respond") \/ response[r].status # 200
    /\ response[r].status = 200 => "parse" \in Steps(r)

C6_ExtractorFailureCleansUp ==
    \A r \in Requests :
        (Done(r) /\ reqKind[r] = "upload" /\ "extractor failed" \in Steps(r)) =>
            /\ "cleanup" \in Steps(r)
            /\ response[r].status \in {500, 502}
            /\ ~response[r].success
            /\ "analyze" \notin Steps(r)
            /\ calls[r] = <<>>

(* C9: every likelihood surfaced in data.analysis.parsed of an upload      *)
(* response lies in [0,1] (0..100 in hundredths).                          *)
C9_SurfacedLikelihoodInRange ==
    \A r \in Requests :
        (response[r].status = 200 /\ isSummary(response[r].parsed)) =>
            LET l == Get(response[r].parsed, "ai_generated_likelihood").num
            IN  0 <= l /\ l <= 100

-----------------------------------------------------------------------------
(* States in which the code departs from the claims above *)

(* C1: the audio extraction failed after its folder was made; the request  *)
(* ended with 500 and the audio-* folder is still on disk.                 *)
C1_AudioFolderLeft ==
    /\ ctlRev = "part_004"
    /\ \E r \in Requests :
          /\ Done(r)
          /\ response[r].status = 500
          /\ AudioDir(r) \in dirs

(* C2: one request's cleanupExtractedFrames removed the frames folder of a *)
(* request still in flight, which then failed on a missing frame file.     *)
C2_OtherRequestFramesDeleted ==
    /\ ctlRev = "part_004"
    /\ \E a, b \in Requests :
          /\ <<a, b>> \in crossDeleted
          /\ Done(b)
          /\ frameCount[b] > 0
          /\ response[b].status = 502
          /\ calls[b] = <<>>

(* C3: two fine-tune extractions run on the one frames-for-fine-tuning     *)
(* folder at once.                                                         *)
C3_FineTuneDirShared ==
    /\ Cardinality(users[FineTuneDir]) > 1
    /\ \A r \in users[FineTuneDir] : pc[r] = "ftExtracting"

(* C4: the request ended with 502 and the uploaded file is still there *)
C4_VideoLeftAfterFailure ==
    /\ ctlRev = "video.ts"
    /\ \E r \in Requests :
          /\ Done(r)
          /\ response[r].status = 502
          /\ r \in videos

(* C6: the extractor failed and the request ended with 500 without any     *)
(* cleanup step                                                            *)
C6_NoCleanupAfterExtractorFailure ==
    /\ ctlRev = "video.ts"
    /\ \E r \in Requests :
          /\ Done(r)
          /\ "extractor failed" \in Steps(r)
          /\ "cleanup" \notin Steps(r)
          /\ response[r].status = 500
          /\ r \in videos

(* C7: the summary object the prompts ask for is rejected *)
C7_CamelSummaryRejected ==
    /\ parseCalls > 0
    /\ CarriesEmbedded
    /\ embedded = CamelSummary(42)
    /\ shapeOfText = "plain"
    /\ parsed = ParseResult(JNull, ParseFailedError)

(* C9: a likelihood of 1.5 is surfaced as it came *)
C9_UnclampedLikelihoodSurfaced ==
    \E r \in Requests :
        /\ response[r].status = 200
        /\ response[r].parsed = SnakeSummary(150)

-----------------------------------------------------------------------------
(* Validation, extractor failure and parse failure, checked under Spec *)

(* the upload is rejected by validation: no file, a MIME type outside the  *)
(* allow-list, or a size above the ceiling                                 *)
Rejected(r) ==
    /\ reqKind[r] = "upload"
    /\ \/ ~uploaded[r].present
       \/ uploaded[r].mimetype \notin ALLOWED_VIDEO_TYPES
       \/ uploaded[r].size > MAX_FILE_SIZE

C16_ExtractorFailureAnswers502 ==
    \A r \in Requests :
        (Done(r) /\ reqKind[r] = "upload" /\ "extractor failed" \in Steps(r)) =>
            (response[r].status = 502 /\ ~response[r].success)

(* C16: the extractor failed and the request was answered 500 *)
C16_ExtractorFailureAnswered500 ==
    /\ ctlRev = "part_004"
    /\ \E r \in Requests :
          /\ Done(r)
          /\ "extractor failed" \in Steps(r)
          /\ response[r].status = 500
          /\ calls[r] = <<>>

(* the analysis returned text that the parser cannot turn into a known shape *)
Unparsed(r) ==
    /\ reqKind[r] = "upload"
    /\ "analyzed" \in Steps(r)
    /\ parseAIDetectionOutput(TextArg(answer[r])).data = JNull

ParseFailureEnvelope(r) ==
    /\ response[r].status = 200
    /\ response[r].success
    /\ response[r].raw = answer[r]
    /\ response[r].parsed = JNull
    /\ response[r].parseError = parseAIDetectionOutput(TextArg(answer[r])).error
    /\ response[r].parseError # NoError

-----------------------------------------------------------------------------
(* Requests per analysis call, checked under SpecClient *)

CountOf(seq, e) == Cardinality({i \in 1..Len(seq) : seq[i] = e})

-----------------------------------------------------------------------------
(* Frame selection, checked under SpecSample *)

(* the cap each revision applies, 0 when it applies none *)
CapOf(rev) ==
    CASE rev = "part_010" -> MAX_FRAMES
      [] rev = "part_011" -> 0
      [] rev = "part_003" -> RandomCap
      [] rev = "recording.ts" -> SliceCap

(* C20: the frames sent number at most the cap, are frames of the input    *)
(* without duplicates, and are in the temporal order of the input; when    *)
(* the input has no more frames than the cap, all of them are sent.        *)
C20_SelectionCappedAndOrdered ==
    sPc = "sent" =>
        /\ CapOf(sRev) > 0 => Len(sSent) <= CapOf(sRev)
        /\ \A k \in 1..Len(sSent) : sSent[k] \in 1..sCount
        /\ \A a, b \in 1..Len(sSent) : a < b => sSent[a] < sSent[b]
        /\ (CapOf(sRev) = 0 \/ sCount <= CapOf(sRev)) => sSent = InputFrames(sCount)

(* C20: the recording analysis sends six of seven frames with the last     *)
(* frame first                                                             *)
C20_FramesSentOutOfOrder ==
    /\ sPc = "sent"
    /\ sRev = "part_003"
    /\ sCount = RandomCap + 1
    /\ sSent[1] = sCount
    /\ sSent[2] = 1

-----------------------------------------------------------------------------
(* Termination of the analysis call, checked under SpecLive *)

(* C18: an analysis call never waits indefinitely for the model endpoint:  *)
(* a request that is waiting for the model's answer eventually gets its    *)
(* response, even when the endpoint never replies.                         *)
C18_WaitingRequestEventuallyAnswered ==
    \A r \in Requests : (pc[r] = "analyzing") ~> (pc[r] = "done")

(* C18: every request is finished or waiting for the model endpoint, so    *)
(* only a reply of the endpoint can move the system on                     *)
C18_OnlyTheEndpointCanEndTheWait ==
    /\ \A r \in Requests : pc[r] \in {"analyzing", "done"}
    /\ \A r \in Requests : pc[r] = "analyzing" => response[r] = NoResponse
    /\ \E r \in Requests : pc[r] = "analyzing"

(* the status the request has when the broadcaster and cleanup do nothing *)
PrimaryStatus(file, result) ==
    CASE file = "none" -> 400
      [] file = "invalid" -> 400
      [] result = "ok" -> 200
      [] result = "failed" -> 502
      [] OTHER -> 500

(* C11: no failure inside the Progress Broadcaster changes the outcome of  *)
(* the upload request: an accepted upload that has ended ran its analysis  *)
(* and sent exactly the response that the analysis result calls for        *)
C11_BroadcasterNeverChangesOutcome ==
    (bPc = "done" /\ bFile = "valid") =>
        /\ bResult # "none"
        /\ bResponses = <<PrimaryStatus(bFile, bResult)>>

C11_SendFailureReplaced200By500 ==
    /\ wss
    /\ bPc = "done"
    /\ bResult = "ok"
    /\ bResponses = <<500>>

(* C12: after stopFrameStreaming has been called for the path, no          *)
(* streaming loop for that path sends a further frame event                *)
C12_NoFrameAfterStop == lateFrames = {}

C12_LoopOutlivesStop ==
    /\ stopCalled
    /\ \E c \in Conns : stream[c] = "looping" /\ c \in lateFrames

(* C13: once cleanupVideoFile has deleted the uploaded file, no preview    *)
(* extraction is still at work on it                                       *)
C13_NoReadAfterDelete ==
    bVideo = "deleted" => \A c \in Conns : stream[c] # "extracting"

C13_PreviewReadsDeletedFile ==
    /\ bVideo = "deleted"
    /\ bResponses = <<200>>
    /\ \E c \in Conns : stream[c] = "extracting"

(* C14: a failure during cleanup never changes the result of the request:  *)
(* a request in which no broadcast threw sends one response, with the      *)
(* status it has when every unlink succeeds                                *)
C14_CleanupFailureKeepsResult ==
    (bPc = "done" /\ "broadcast threw" \notin Range(bSteps)) =>
        bResponses = <<PrimaryStatus(bFile, bResult)>>

C14_RejectedUploadAnswered500 ==
    /\ bFile = "invalid"
    /\ bVideo = "present"
    /\ bResponses = <<500>>

(* the kind of upstream failure: billing and quota are one kind *)
FailureKind(up) == IF up.kind = "quota" THEN "billing" ELSE up.kind

(* C21: a billing/quota failure, a rate-limit failure, a generic API       *)
(* failure and a timeout are reported as four distinguishable error        *)
(* outcomes: every failed call throws, and two failed calls carry the same *)
(* error label exactly when their upstream failures are of the same kind   *)
C21_FailureKindsReportedDistinctly ==
    \A i, j \in DOMAIN eCalls :
        (eCalls[i].upstream.kind # "ok" /\ eCalls[j].upstream.kind # "ok") =>
            /\ eCalls[i].outcome.how = "thrown"
            /\ (FailureKind(eCalls[i].upstream) = FailureKind(eCalls[j].upstream))
                   <=> (eCalls[i].outcome.label = eCalls[j].outcome.label)

C21_TimeoutReportedAsGenericFailure ==
    /\ eRev = "analyzeSingleFrameWithOpenAI"
    /\ Len(eCalls) = 2
    /\ eCalls[1].upstream.kind = "api"
    /\ eCalls[2].upstream.kind = "timeout"
    /\ eCalls[1].outcome.label = eCalls[2].outcome.label

HasPath(message) == \E i \in DOMAIN message : message[i][1] = "path"

IsFailure(entry) ==
    \/ entry.channel = "http" /\ entry.status >= 300
    \/ entry.channel = "ws" /\ ~entry.body.success

(* C22: every non-2xx response is a JSON object with success = false and   *)
(* an error string, and neither it nor an error message on the WebSocket   *)
(* channel contains a stack trace or an internal filesystem path           *)
C22_FailureBodiesStructuredAndClean ==
    \A i \in DOMAIN hLog :
        IsFailure(hLog[i]) =>
            /\ hLog[i].body.success = FALSE
            /\ hLog[i].body.error # Absent
            /\ ~HasPath(hLog[i].body.error)
            /\ ~HasPath(hLog[i].body.details)
            /\ \A fe \in {FsError("mkdir", "screenshots"), ApiError} :
                   hLog[i].body.error # fe.stack /\ hLog[i].body.details # fe.stack

C22_FineTune500ExposesPath ==
    \E i \in DOMAIN hLog :
        /\ hLog[i].handler = "processFineTuneVideo"
        /\ hLog[i].status = 500
        /\ HasPath(hLog[i].body.details)

Candidate(toks, k) ==
    CASE k = 1 -> toks
      [] k = 2 -> codeBlock(toks)
      [] k = 3 -> Span(toks, LBrace, RBrace)
      [] OTHER -> Span(toks, LBracket, RBracket)

Accepted(c) ==
    /\ c # <<>>
    /\ JSONparse(c).ok
    /\ isSummary(JSONparse(c).v) \/ isFrameArray(JSONparse(c).v)

AcceptedSteps(toks) == {k \in 1..4 : Accepted(Candidate(toks, k))}

(* C29: the parser returns the value of the first of its four candidates   *)
(* (whole text, code block, brace span, bracket span) that parses and has  *)
(* a known shape; candidates that do not parse or have no known shape are  *)
(* passed over, and only when none is accepted does the parser fail        *)
C29_FirstAcceptedCandidateWins ==
    (parseCalls > 0 /\ raw.isString /\ raw.toks # <<>>) =>
        LET ok == AcceptedSteps(raw.toks)
        IN  IF ok = {} THEN parsed = ParseResult(JNull, ParseFailedError)
            ELSE LET k == CHOOSE i \in ok : \A j \in ok : i <= j
                 IN  parsed = ParseResult(JSONparse(Candidate(raw.toks, k)).v, NoError)

C29_Witness ==
    /\ parseCalls > 0
    /\ raw.isString
    /\ AcceptedSteps(raw.toks) = {4}
    /\ JSONparse(Candidate(raw.toks, 3)).ok
    /\ parsed.error = NoError
    /\ parsed.data = embedded

(* C24: with the database configured and working, an analysis is stored    *)
(* exactly when its AI likelihood is above 50%                             *)
C24_StoredIffLikelihoodAboveHalf ==
    (rPc = "done" /\ rResponse.status = 200 /\ rDbConfigured) =>
        LET l == rResponse.analysis.likelihood
        IN  (l.t = "num" /\ l.num > 50) <=> (rStored = <<rResponse.analysis>>)

C24_HighLikelihoodUnknownUserNotStored ==
    /\ rRev = "part_003"
    /\ rPc = "done"
    /\ rDbConfigured
    /\ rResponse.status = 200
    /\ rResponse.analysis = Analysis("unknown", JNum(90))
    /\ rStored = <<>>

(* C27: when the response of a recording request is sent, the session      *)
(* directory the request created is gone with all its files                *)
C27_SessionDirRemovedAtResponse ==
    rPc = "done" => (rDir # "present" /\ rFiles = 0)

C27_SessionDirLeftAfter200 ==
    /\ rRev = "recording.ts:365"
    /\ rPc = "done"
    /\ rResponse.status = 200
    /\ rDir = "present"
    /\ rFiles = rFrames + 1

(* C28: the analysis of a recording never fails the request: a failed      *)
(* model call, a missing content and a text that is not JSON give the      *)
(* fallback with likelihood 0 and username 'unknown' and a 200 response,   *)
(* and the likelihood returned is always a number from 0 to 1              *)
C28_AnalysisFallsBackAndStaysInRange ==
    (rPc = "done" /\ rReply.kind # "none") =>
        /\ rResponse.status = 200
        /\ rReply.kind \in {"api error", "no content", "not json"} =>
               rResponse.analysis = Fallback
        /\ rResponse.analysis.likelihood.t = "num"
        /\ rResponse.analysis.likelihood.num \in 0..100

C28_LikelihoodIsNaN ==
    /\ rRev = "part_003"
    /\ rPc = "done"
    /\ rResponse.status = 200
    /\ rReply.kind = "json"
    /\ Get(rReply.value, "synthetic_likelihood") = JStr("high")
    /\ rResponse.analysis.likelihood = JNaN

(* C25: every invocation of uploadVideo sends exactly one HTTP response:   *)
(* none while it is still running, one when it has ended, never a second   *)
C25_ExactlyOneResponse ==
    \A r \in Requests :
        reqKind[r] = "upload" =>
            /\ CountOf(log[r], "respond") <= 1
            /\ Done(r) <=> CountOf(log[r], "respond") = 1
            /\ Done(r) <=> response[r] # NoResponse

C25_Witness ==
    \E r \in Requests :
        /\ reqKind[r] = "upload"
        /\ Done(r)
        /\ response[r].status = 200
        /\ CountOf(log[r], "respond") = 1
        /\ log[r][Len(log[r])] # "respond"

BroadcastSteps ==
    {"broadcast starting", "broadcast processing", "broadcast completed", "broadcast error"}

Statuses == SelectSeq(bSteps, LAMBDA e : e \in BroadcastSteps)

(* C26: a request that broadcast 'starting' broadcasts 'processing' next   *)
(* and then exactly one terminal status, 'completed' when it answers 200   *)
(* and 'error' when it answers 502 or 500, and its streaming loop is       *)
(* stopped                                                                 *)
C26_TerminalStatusAlwaysBroadcast ==
    (wss /\ bPc = "done" /\ "broadcast starting" \in Range(bSteps)) =>
        /\ Statuses = <<"broadcast starting", "broadcast processing",
                        IF bResponses = <<200>> THEN "broadcast completed"
                        ELSE "broadcast error">>
        /\ stopCalled

C26_NoTerminalStatusOn500 ==
    /\ wss
    /\ bPc = "done"
    /\ bResult = "threw"
    /\ bResponses = <<500>>
    /\ Statuses = <<"broadcast starting", "broadcast processing">>

(* C30: the frame list the extractor returns holds exactly the files of    *)
(* the folder that are not empty, in the order of their frame numbers      *)
C30_ListedFramesNonEmptyInOrder ==
    xPc = "returned" =>
        /\ Range(xFrames) = {f \in xDir : f.size > 0}
        /\ \A i, j \in DOMAIN xFrames : i < j => xFrames[i].index < xFrames[j].index

C30_EmptyFrameFileListed ==
    /\ xPc = "returned"
    /\ \E i \in DOMAIN xFrames : xFrames[i].size = 0

C30_FramesOutOfOrder ==
    /\ xPc = "returned"
    /\ xRev = "extractFrames"
    /\ \A f \in xDir : f.size > 0
    /\ xFrames = <<FrameFile(100000, 1), FrameFile(99999, 1)>>

=============================================================================
